---------------------------- MODULE Spec2Model ----------------------------
(***************************************************************************)
(* A model of the Dakota front end and evaluator (src/src/lexer.cpp,       *)
(* src/src/parser.cpp, src/src/interpreter.cpp).                           *)
(*                                                                         *)
(* Five specifications are given:                                          *)
(*   SpecLexer   Lexer::tokenize() on bounded source texts;                *)
(*   SpecParser  Parser::parse() on bounded token vectors;                 *)
(*   SpecEnv     the calls of class Environment on bounded frame chains;   *)
(*   SpecRun     the sequence of the drivers in src/tests: parse() on a    *)
(*               token vector, then an Interpreter on the Parser;          *)
(*   SpecValue   the operations of class Value and the matrix builtins on  *)
(*               bounded operands.                                         *)
(*                                                                         *)
(* Characters are one-character strings, C++ strings are sequences of      *)
(* characters, vectors are sequences; an index k of the code (0-based) is  *)
(* element k + 1 of the sequence.                                          *)
(***************************************************************************)
EXTENDS Integers, Sequences, FiniteSets, TLC

VARIABLES
    lexer,          \* the Lexer object (lexer.h:96-111)
    tokens,         \* Lexer::tokenize's local token vector (lexer.cpp:422)
    at_line_start,  \* Lexer::tokenize's local flag (lexer.cpp:423)
    lex_pc,         \* where tokenize() is: "loop", "final", "returned", "threw"
    ctx,            \* the Parser's ParseContext (parser.h:278-311)
    parse_pc,       \* where parse() is: "loop", "returned", "hang", "undefined",
                    \* "crashed"
    env,            \* Environment objects on the heap and the last call made
                    \* on one of them (interpreter.h:112-125)
    interp,         \* the Interpreter object and the Environment objects it
                    \* made (interpreter.h:166-229)
    interp_pc,      \* "idle" (no Interpreter), "ready" (constructed, no call
                    \* running), "undefined", "hang", "crashed"
    vcall           \* the last operation applied to Values and how it
                    \* ended (interpreter.h:16-95)

lexvars == <<lexer, tokens, at_line_start, lex_pc>>

parsevars == <<ctx, parse_pc>>

runvars == <<env, interp, interp_pc, vcall>>

vars == <<lexvars, parsevars, runvars>>

---------------------------------------------------------------------------
(***************************************************************************)
(* Helpers on sequences.                                                   *)
(***************************************************************************)
Last(s) == s[Len(s)]

Front(s) == SubSeq(s, 1, Len(s) - 1)

RECURSIVE SeqsUpTo(_, _)
\* all sequences over S of length at most n
SeqsUpTo(S, n) ==
    IF n = 0 THEN {<<>>}
    ELSE LET shorter == SeqsUpTo(S, n - 1)
         IN  shorter \cup {Append(s, x) : s \in {t \in shorter : Len(t) = n - 1}, x \in S}

RECURSIVE Flatten(_)
Flatten(ss) == IF ss = <<>> THEN <<>> ELSE Head(ss) \o Flatten(Tail(ss))

RECURSIVE CountOf(_, _)
\* how many elements of the token sequence s have type t
CountOf(s, t) ==
    IF s = <<>> THEN 0
    ELSE (IF Head(s).type = t THEN 1 ELSE 0) + CountOf(Tail(s), t)

---------------------------------------------------------------------------
(***************************************************************************)
(* LEXER (src/src/lexer.cpp)                                               *)
(***************************************************************************)
NUL == "NUL"    \* the '\0' that current_char holds past the end of the source

TabSize == 4

Digits == {"0", "1", "2", "3", "4", "5", "6", "7", "8", "9"}

Letters ==
    {"a", "b", "c", "d", "e", "f", "g", "h", "i", "j", "k", "l", "m",
     "n", "o", "p", "q", "r", "s", "t", "u", "v", "w", "x", "y", "z",
     "A", "B", "C", "D", "E", "F", "G", "H", "I", "J", "K", "L", "M",
     "N", "O", "P", "Q", "R", "S", "T", "U", "V", "W", "X", "Y", "Z"}

is_digit(c) == c \in Digits

is_alpha(c) == c \in Letters \/ c = "_"

is_alnum(c) == c \in Letters \/ c \in Digits \/ c = "_"

Token(t, v) == [type |-> t, value |-> v]

\* Lexer::keywords
KeywordType(id) ==
    CASE id = <<"i", "f">> -> "IF"
      [] id = <<"e", "l", "s", "e">> -> "ELSE"
      [] id = <<"e", "l", "i", "f">> -> "ELIF"
      [] id = <<"w", "h", "i", "l", "e">> -> "WHILE"
      [] id = <<"f", "o", "r">> -> "FOR"
      [] id = <<"i", "n">> -> "IN"
      [] id = <<"f", "u", "n", "c", "t", "i", "o", "n">> -> "FUNCTION"
      [] id = <<"r", "e", "t", "u", "r", "n">> -> "RETURN"
      [] id = <<"t", "r", "u", "e">> -> "TRUE"
      [] id = <<"f", "a", "l", "s", "e">> -> "FALSE"
      [] id = <<"a", "n", "d">> -> "AND"
      [] id = <<"o", "r">> -> "OR"
      [] id = <<"n", "o", "t">> -> "NOT"
      [] id = <<"m", "u", "l", "t">> -> "MATMUL"
      [] OTHER -> "IDENTIFIER"

\* source[p] for a 0-based p, '\0' past the end
CharAt(src, p) == IF p < Len(src) THEN src[p + 1] ELSE NUL

\* Lexer::Lexer
NewLexer(source_code, tab_size, preserve_comments) ==
    [source |-> source_code,
     position |-> 0,
     current_char |-> CharAt(source_code, 0),
     indent_stack |-> <<0>>,
     indent_style |-> "UNKNOWN",
     base_indent |-> 0,
     tab_size |-> tab_size,
     first_indent_detected |-> FALSE,
     preserve_comments |-> preserve_comments,
     threw |-> FALSE]

\* Lexer::advance (line and column, which only label tokens and messages,
\* are not kept)
advance(L) ==
    [L EXCEPT !.position = L.position + 1,
              !.current_char = CharAt(L.source, L.position + 1)]

\* Lexer::peek
peek(L) == CharAt(L.source, L.position + 1)

RECURSIVE skip_whitespace(_)
skip_whitespace(L) ==
    IF L.current_char \in {" ", "\t", "\r"}
    THEN skip_whitespace(advance(L))
    ELSE L

RECURSIVE TakeWhile(_, _, _)
\* the loops "while (P(current_char)) { str += current_char; advance(); }":
\* the lexer after the run and the characters taken
TakeWhile(L, chars, acc) ==
    IF L.current_char \in chars
    THEN TakeWhile(advance(L), chars, Append(acc, L.current_char))
    ELSE [lexer |-> L, text |-> acc]

\* Lexer::make_number
make_number(L) ==
    LET int  == TakeWhile(L, Digits, <<>>)
        L1   == int.lexer
        dot  == L1.current_char = "." /\ is_digit(peek(L1))
        frac == IF dot
                THEN TakeWhile(advance(L1), Digits, Append(int.text, "."))
                ELSE int
        L2   == frac.lexer
        exp  == L2.current_char \in {"e", "E"}
        L3   == advance(L2)
        sgn  == L3.current_char \in {"+", "-"}
        L4   == IF sgn THEN advance(L3) ELSE L3
        t3   == Append(frac.text, L2.current_char)
        t4   == IF sgn THEN Append(t3, L3.current_char) ELSE t3
        expd == IF exp THEN TakeWhile(L4, Digits, t4) ELSE frac
        is_float == dot \/ exp
    IN  [lexer |-> expd.lexer,
         token |-> Token(IF is_float THEN "FLOAT" ELSE "INTEGER", expd.text)]

RECURSIVE StringBody(_, _)
\* the loop of Lexer::make_string (lexer.cpp:121-136)
StringBody(L, acc) ==
    IF L.current_char = "\"" \/ L.current_char = NUL
    THEN [lexer |-> L, text |-> acc]
    ELSE IF L.current_char = "\\"
         THEN LET L1 == advance(L)
                  c  == L1.current_char
                  e  == CASE c = "n" -> "\n"
                          [] c = "t" -> "\t"
                          [] c = "r" -> "\r"
                          [] OTHER -> c
              IN  StringBody(advance(L1), Append(acc, e))
         ELSE StringBody(advance(L), Append(acc, L.current_char))

\* Lexer::make_string
make_string(L) ==
    LET body == StringBody(advance(L), <<>>)
    IN  IF body.lexer.current_char = "\""
        THEN [lexer |-> advance(body.lexer), token |-> Token("STRING", body.text)]
        ELSE [lexer |-> [body.lexer EXCEPT !.threw = TRUE],
              token |-> Token("INVALID", <<>>)]

\* Lexer::make_identifier
make_identifier(L) ==
    LET id == TakeWhile(L, Letters \cup Digits \cup {"_"}, <<>>)
    IN  [lexer |-> id.lexer, token |-> Token(KeywordType(id.text), id.text)]

RECURSIVE SkipToLineEnd(_, _)
\* "while (current_char != '\n' && current_char != '\0') advance();"
SkipToLineEnd(L, acc) ==
    IF L.current_char = "\n" \/ L.current_char = NUL
    THEN [lexer |-> L, text |-> acc]
    ELSE SkipToLineEnd(advance(L), Append(acc, L.current_char))

\* Lexer::make_comment
make_comment(L) ==
    LET c == SkipToLineEnd(advance(L), <<>>)
    IN  [lexer |-> c.lexer, token |-> Token("COMMENT", c.text)]

\* the two-character operators of Lexer::next_token (lexer.cpp:370-390)
TwoCharType(c, d) ==
    CASE c = "=" /\ d = "=" -> "EQUAL"
      [] c = "!" /\ d = "=" -> "NOT_EQUAL"
      [] c = "<" /\ d = "=" -> "LESS_EQUAL"
      [] c = ">" /\ d = "=" -> "GREATER_EQUAL"
      [] c = "*" /\ d = "*" -> "POWER"
      [] OTHER -> "NONE"

\* the single-character switch of Lexer::next_token (lexer.cpp:393-415)
OneCharType(c) ==
    CASE c = "+" -> "PLUS"
      [] c = "-" -> "MINUS"
      [] c = "*" -> "MULTIPLY"
      [] c = "/" -> "DIVIDE"
      [] c = "=" -> "ASSIGN"
      [] c = "<" -> "LESS"
      [] c = ">" -> "GREATER"
      [] c = "(" -> "LPAREN"
      [] c = ")" -> "RPAREN"
      [] c = "[" -> "LBRACKET"
      [] c = "]" -> "RBRACKET"
      [] c = "{" -> "LBRACE"
      [] c = "}" -> "RBRACE"
      [] c = "," -> "COMMA"
      [] c = ";" -> "SEMICOLON"
      [] c = ":" -> "COLON"
      [] c = "." -> "DOT"
      [] OTHER -> "INVALID"

RECURSIVE next_token(_)
\* Lexer::next_token: the lexer after the call and the token returned
next_token(L) ==
    LET c == L.current_char
    IN  IF c = NUL THEN [lexer |-> L, token |-> Token("EOF_TOKEN", <<>>)]
        ELSE IF c = "\n"
        THEN [lexer |-> advance(L), token |-> Token("NEWLINE", <<"\n">>)]
        ELSE IF c \in {" ", "\t", "\r"} THEN next_token(skip_whitespace(L))
        ELSE IF is_digit(c) THEN make_number(L)
        ELSE IF c = "\"" THEN make_string(L)
        ELSE IF is_alpha(c) THEN make_identifier(L)
        ELSE IF c = "\\"
        THEN IF L.preserve_comments
             THEN make_comment(L)
             ELSE next_token(SkipToLineEnd(advance(L), <<>>).lexer)
        ELSE IF TwoCharType(c, peek(L)) # "NONE"
        THEN [lexer |-> advance(advance(L)),
              token |-> Token(TwoCharType(c, peek(L)), <<c, peek(L)>>)]
        ELSE [lexer |-> advance(L), token |-> Token(OneCharType(c), <<c>>)]

RECURSIVE CountIndent_TabsAsSpaces(_, _, _, _)
\* the counting loop taking a tab for tab_size spaces
CountIndent_TabsAsSpaces(L, current_indent, has_spaces, has_tabs) ==
    IF L.current_char = " "
    THEN CountIndent_TabsAsSpaces(advance(L), current_indent + 1, TRUE, has_tabs)
    ELSE IF L.current_char = "\t"
    THEN CountIndent_TabsAsSpaces(advance(L), current_indent + L.tab_size, TRUE,
                                  has_tabs)
    ELSE [lexer |-> L, current_indent |-> current_indent,
          has_spaces |-> has_spaces, has_tabs |-> has_tabs]

RECURSIVE CountIndent(_, _, _, _)
\* the counting loop of Lexer::handle_indentation (lexer.cpp:242-251)
CountIndent(L, current_indent, has_spaces, has_tabs) ==
    IF L.current_char = " "
    THEN CountIndent(advance(L), current_indent + 1, TRUE, has_tabs)
    ELSE IF L.current_char = "\t"
    THEN CountIndent(advance(L), current_indent + L.tab_size, has_spaces, TRUE)
    ELSE [lexer |-> L, current_indent |-> current_indent,
          has_spaces |-> has_spaces, has_tabs |-> has_tabs]

\* validate_indentation_style without its last check: an indentation that is
\* not a multiple of base_indent passes
validate_indentation_style_AnyWidth(L, has_spaces, has_tabs, current_indent) ==
    IF has_spaces /\ has_tabs THEN [L EXCEPT !.threw = TRUE]
    ELSE
    LET detect == L.indent_style = "UNKNOWN" /\ current_indent > 0
        L1 == IF ~detect THEN L
              ELSE IF has_tabs
              THEN [L EXCEPT !.indent_style = "TABS", !.base_indent = 1,
                             !.first_indent_detected = TRUE]
              ELSE IF has_spaces
              THEN [L EXCEPT !.indent_style = "SPACES",
                             !.base_indent = current_indent,
                             !.first_indent_detected = current_indent >= 2,
                             !.threw = current_indent < 2]
              ELSE [L EXCEPT !.first_indent_detected = TRUE]
    IN  IF L1.threw THEN L1
        ELSE IF L1.indent_style = "TABS" /\ has_spaces THEN [L1 EXCEPT !.threw = TRUE]
        ELSE IF L1.indent_style = "SPACES" /\ has_tabs THEN [L1 EXCEPT !.threw = TRUE]
        ELSE L1

\* Lexer::validate_indentation_style; a throw is recorded in the field threw
validate_indentation_style(L, has_spaces, has_tabs, current_indent) ==
    IF has_spaces /\ has_tabs THEN [L EXCEPT !.threw = TRUE]
    ELSE
    LET detect == L.indent_style = "UNKNOWN" /\ current_indent > 0
        L1 == IF ~detect THEN L
              ELSE IF has_tabs
              THEN [L EXCEPT !.indent_style = "TABS", !.base_indent = 1,
                             !.first_indent_detected = TRUE]
              ELSE IF has_spaces
              THEN [L EXCEPT !.indent_style = "SPACES",
                             !.base_indent = current_indent,
                             !.first_indent_detected = current_indent >= 2,
                             !.threw = current_indent < 2]
              ELSE [L EXCEPT !.first_indent_detected = TRUE]
    IN  IF L1.threw THEN L1
        ELSE IF L1.indent_style = "TABS" /\ has_spaces THEN [L1 EXCEPT !.threw = TRUE]
        ELSE IF L1.indent_style = "SPACES" /\ has_tabs THEN [L1 EXCEPT !.threw = TRUE]
        ELSE IF /\ L1.indent_style = "SPACES"
                /\ L1.first_indent_detected
                /\ current_indent > 0
                /\ current_indent % L1.base_indent # 0
        THEN [L1 EXCEPT !.threw = TRUE]
        ELSE L1

\* the DEDENT loop without its comparison with current_indent: every level is
\* popped
PopDedents_ToEmpty(stack, current_indent, toks) ==
    [indent_stack |-> <<>>, tokens |-> toks \o [i \in 1 .. Len(stack) |-> Token("DEDENT", <<>>)]]

RECURSIVE PopDedents(_, _, _)
\* the DEDENT loop of Lexer::handle_indentation (lexer.cpp:307-310)
PopDedents(stack, current_indent, toks) ==
    IF stack # <<>> /\ Last(stack) > current_indent
    THEN PopDedents(Front(stack), current_indent, Append(toks, Token("DEDENT", <<>>)))
    ELSE [indent_stack |-> stack, tokens |-> toks]

ContinuationChars == {"+", "-", "*", "/", "=", ",", ".", "&", "|"}

\* the comparison with the indentation stack in Lexer::handle_indentation
\* (lexer.cpp:268-321)
CompareIndent(L, current_indent) ==
    LET previous_indent == Last(L.indent_stack)
        indent_diff == current_indent - previous_indent
    IN  IF current_indent > previous_indent
        THEN LET first == L.indent_style = "SPACES" /\ ~L.first_indent_detected
                 L1 == IF first
                       THEN [L EXCEPT !.base_indent = indent_diff,
                                      !.first_indent_detected = TRUE,
                                      !.threw = indent_diff < 2]
                       ELSE IF /\ L.indent_style = "SPACES"
                               /\ indent_diff % L.base_indent # 0
                       THEN [L EXCEPT !.threw = TRUE]
                       ELSE L
                 L2 == IF L1.indent_style = "TABS" /\ ~L1.first_indent_detected
                       THEN [L1 EXCEPT !.first_indent_detected = TRUE]
                       ELSE L1
             IN  IF L1.threw
                 THEN [lexer |-> L1, tokens |-> <<>>]
                 ELSE [lexer |-> [L2 EXCEPT !.indent_stack = Append(@, current_indent)],
                       tokens |-> <<Token("INDENT", <<>>)>>]
        ELSE IF current_indent < previous_indent
        THEN LET p == PopDedents(L.indent_stack, current_indent, <<>>)
                 bad == p.indent_stack = <<>> \/ Last(p.indent_stack) # current_indent
             IN  [lexer |-> [L EXCEPT !.indent_stack = p.indent_stack, !.threw = bad],
                  tokens |-> p.tokens]
        ELSE [lexer |-> L, tokens |-> <<>>]

\* Lexer::handle_indentation: the lexer after the call and the tokens returned
handle_indentation(L) ==
    LET cnt == CountIndent(L, 0, FALSE, FALSE)
        L1  == validate_indentation_style(cnt.lexer, cnt.has_spaces, cnt.has_tabs,
                                          cnt.current_indent)
    IN  IF L1.threw THEN [lexer |-> L1, tokens |-> <<>>]
        ELSE IF L1.current_char = "\n" THEN [lexer |-> L1, tokens |-> <<>>]
        ELSE IF L1.current_char \in ContinuationChars THEN [lexer |-> L1, tokens |-> <<>>]
        ELSE CompareIndent(L1, cnt.current_indent)

\* tokenize() without its closing loop: blocks still open at the end of input
\* are left open
FinalDedents_Skipped(stack, toks) == [indent_stack |-> stack, tokens |-> toks]

RECURSIVE FinalDedents(_, _)
\* the closing loop of Lexer::tokenize (lexer.cpp:455-458)
FinalDedents(stack, toks) ==
    IF Len(stack) > 1
    THEN FinalDedents(Front(stack), Append(toks, Token("DEDENT", <<>>)))
    ELSE [indent_stack |-> stack, tokens |-> toks]

---------------------------------------------------------------------------
(***************************************************************************)
(* PARSER (src/src/parser.h, src/src/parser.cpp)                           *)
(*                                                                         *)
(* The parse context is a record c; every parsing function is an operator  *)
(* from contexts to contexts.  The field c.status says how the call        *)
(* stands:                                                                 *)
(*   "ok"     running;                                                     *)
(*   "throw"  a std::exception is propagating (std::stoll, std::stod);     *)
(*   "hang"   a loop was entered that can never end;                       *)
(*   "ub"     undefined behaviour was executed (back() or pop_back() on an *)
(*            empty vector).                                               *)
(* A function applied to a context whose status is not "ok" does nothing:  *)
(* that is how the exception, or the end of defined execution, propagates. *)
(***************************************************************************)
\* UINT32_MAX in the source.  The model checker's integers end at 2^31 - 1,
\* which stands for it here: like UINT32_MAX it is not 0 and is the index of
\* no node.
INVALID_INDEX == 2147483647

ROOT_NODE_INDEX == 0

\* the value of a union member the constructor of ASTNode does not write
\* (bytes 8..15 of the union, parser.h:209-214)
Uninit == -1

\* the type-specific members of ASTNode's union as its constructor leaves
\* them: "integer_literal.value = 0" zeroes bytes 0..7 only
Payload(t) ==
    CASE t = "INTEGER_LITERAL" -> [value |-> 0]
      [] t = "FLOAT_LITERAL" -> [value |-> [num |-> 0, den |-> 1]]
      [] t = "STRING_LITERAL" -> [string_index |-> 0, length |-> 0]
      [] t = "BOOLEAN_LITERAL" -> [value |-> FALSE]
      [] t = "IDENTIFIER" -> [name_index |-> 0]
      [] t = "BINARY_OP" ->
            [op_type |-> "ADD", left_index |-> 0, right_index |-> Uninit]
      [] t = "UNARY_OP" -> [op_type |-> "NEGATE", operand_index |-> 0]
      [] t = "ASSIGNMENT" -> [target_index |-> 0, value_index |-> 0]
      [] t = "MATRIX_LITERAL" ->
            [rows |-> 0, cols |-> 0, elements_start_index |-> Uninit,
             validation_error |-> Uninit, is_empty |-> Uninit]
      [] t \in {"MATRIX_ACCESS", "ARRAY_ACCESS"} ->
            [object_index |-> 0, index_index |-> 0]
      [] t = "MEMBER_ACCESS" -> [object_index |-> 0, member_name_index |-> 0]
      [] t = "IF_STATEMENT" ->
            [condition_index |-> 0, then_block_index |-> 0,
             else_block_index |-> Uninit]
      [] t = "WHILE_STATEMENT" -> [condition_index |-> 0, body_index |-> 0]
      [] t = "FOR_STATEMENT" ->
            [variable_index |-> 0, iterable_index |-> 0, body_index |-> Uninit]
      [] t = "FUNCTION_DEF" ->
            [name_index |-> 0, params_start_index |-> 0,
             body_index |-> Uninit, param_count |-> Uninit]
      [] t = "FUNCTION_CALL" ->
            [name_index |-> 0, args_start_index |-> 0, arg_count |-> Uninit]
      [] t = "RETURN_STATEMENT" -> [value_index |-> 0]
      [] t = "BLOCK" -> [statements_start_index |-> 0, statement_count |-> 0]
      [] t = "EXPRESSION_STATEMENT" -> [expression_index |-> 0]
      [] OTHER -> [value |-> 0]

\* ASTNode::ASTNode
ASTNode(t, token_idx) ==
    [type |-> t, token_index |-> token_idx, parent_index |-> 0,
     first_child_index |-> 0, next_sibling_index |-> 0] @@ Payload(t)

\* StringTable::add_string: the table after the call and the handle returned.
\* The table is kept as the sequence of its strings; offsets.size() is its
\* length.
add_string(strings, str) ==
    IF str = <<>> THEN [strings |-> strings, index |-> 0]
    ELSE [strings |-> Append(strings, str), index |-> Len(strings)]

\* StringTable::get_string
get_string(strings, index) ==
    IF index >= Len(strings) THEN <<>> ELSE strings[index + 1]

\* ParseContext::ParseContext followed by Parser::Parser.  error_calls is a
\* history field: the number of calls of Parser::error so far.
NewParser(toks) ==
    [tokens |-> toks,
     current_token |-> 0,
     token_count |-> Len(toks),
     nodes |-> <<ASTNode("PROGRAM", 0)>>,
     strings |-> add_string(<<>>, <<>>).strings,
     node_stack |-> <<>>,
     has_error |-> FALSE,
     error_calls |-> 0,
     status |-> "ok"]

\* Parser::current_token
current_token(c) ==
    IF c.current_token >= c.token_count
    THEN Token("EOF_TOKEN", <<>>)
    ELSE c.tokens[c.current_token + 1]

\* Parser::peek_token with its default offset of 1
peek_token(c) ==
    IF c.current_token + 1 >= c.token_count
    THEN Token("EOF_TOKEN", <<>>)
    ELSE c.tokens[c.current_token + 2]

\* Parser::at_end
at_end(c) ==
    c.current_token >= c.token_count \/ current_token(c).type = "EOF_TOKEN"

\* Parser::advance
p_advance(c) ==
    IF c.status = "ok" /\ ~at_end(c) THEN [c EXCEPT !.current_token = @ + 1] ELSE c

\* Parser::check
check(c, type) == current_token(c).type = type

\* Parser::match: the context after the call; whether it matched is
\* check(c, type) on the context before the call
match(c, type) == IF check(c, type) THEN p_advance(c) ELSE c

\* Parser::create_node: the new node's index is Len(c.nodes) before the call
create_node(c, type) ==
    IF c.status # "ok" THEN c
    ELSE [c EXCEPT !.nodes = Append(@, ASTNode(type, c.current_token))]

\* ctx.nodes[i]
NodeAt(c, i) == c.nodes[i + 1]

\* "ctx.nodes[i].field = v"
SetField(c, i, field, v) ==
    IF c.status # "ok" THEN c ELSE [c EXCEPT !.nodes[i + 1][field] = v]

RECURSIVE LastSibling(_, _, _)
\* the walk of Parser::add_child (parser.cpp:136-139) from sibling_index:
\* the index it stops at, or -1 when it comes back to a node it has already
\* visited.  The walk changes nothing, so from then on it repeats forever.
LastSibling(nodes, sibling_index, visited) ==
    LET next == nodes[sibling_index + 1].next_sibling_index
    IN  IF next = INVALID_INDEX THEN sibling_index
        ELSE IF next \in visited THEN -1
        ELSE LastSibling(nodes, next, visited \cup {next})

\* Parser::add_child
add_child(c, parent_index, child_index) ==
    IF c.status # "ok" THEN c
    ELSE IF parent_index >= Len(c.nodes) \/ child_index >= Len(c.nodes) THEN c
    ELSE LET c1 == SetField(c, child_index, "parent_index", parent_index)
             parent == NodeAt(c1, parent_index)
         IN  IF parent.first_child_index = INVALID_INDEX
             THEN SetField(c1, parent_index, "first_child_index", child_index)
             ELSE LET last == LastSibling(c1.nodes, parent.first_child_index,
                                          {parent.first_child_index})
                  IN  IF last = -1 THEN [c1 EXCEPT !.status = "hang"]
                      ELSE SetField(c1, last, "next_sibling_index", child_index)

\* Parser::error and Parser::error_at_current (the message is not kept)
error(c) ==
    IF c.status # "ok" THEN c
    ELSE [c EXCEPT !.has_error = TRUE, !.error_calls = @ + 1]

RECURSIVE synchronize(_)
\* Parser::synchronize
synchronize(c) ==
    IF c.status # "ok" \/ at_end(c) THEN c
    ELSE IF current_token(c).type = "NEWLINE" THEN p_advance(c)
    ELSE IF current_token(c).type \in {"IF", "WHILE", "FOR", "FUNCTION", "RETURN"}
    THEN c
    ELSE synchronize(p_advance(c))

\* "x = ctx.node_stack.back(); ctx.node_stack.pop_back();": the context after
\* the pop; the value read is StackTop of the context before it.  On an empty
\* vector both calls are undefined behaviour.
StackTop(c) == IF c.node_stack = <<>> THEN 0 ELSE Last(c.node_stack)

pop_back(c) ==
    IF c.status # "ok" THEN c
    ELSE IF c.node_stack = <<>> THEN [c EXCEPT !.status = "ub"]
    ELSE [c EXCEPT !.node_stack = Front(@)]

push_back(c, n) ==
    IF c.status # "ok" THEN c ELSE [c EXCEPT !.node_stack = Append(@, n)]

\* "throw" from inside a library call
Throw(c) == IF c.status # "ok" THEN c ELSE [c EXCEPT !.status = "throw"]

\* Parser::token_to_binary_op
token_to_binary_op(token_type) ==
    CASE token_type = "PLUS" -> "ADD"
      [] token_type = "MINUS" -> "SUB"
      [] token_type = "MULTIPLY" -> "MUL"
      [] token_type = "DIVIDE" -> "DIV"
      [] token_type = "POWER" -> "POW"
      [] token_type = "MATMUL" -> "MATMUL"
      [] token_type = "EQUAL" -> "EQ"
      [] token_type = "NOT_EQUAL" -> "NE"
      [] token_type = "LESS" -> "LT"
      [] token_type = "LESS_EQUAL" -> "LE"
      [] token_type = "GREATER" -> "GT"
      [] token_type = "GREATER_EQUAL" -> "GE"
      [] token_type = "AND" -> "AND"
      [] token_type = "OR" -> "OR"
      [] OTHER -> "ADD"

\* Parser::token_to_unary_op
token_to_unary_op(token_type) ==
    IF token_type = "NOT" THEN "NOT" ELSE "NEGATE"

\* Parser::OPERATOR_TABLE
OPERATOR_TABLE ==
    << [op_type |-> "OR",     precedence |-> 1, right_associative |-> FALSE],
       [op_type |-> "AND",    precedence |-> 2, right_associative |-> FALSE],
       [op_type |-> "EQ",     precedence |-> 3, right_associative |-> FALSE],
       [op_type |-> "NE",     precedence |-> 3, right_associative |-> FALSE],
       [op_type |-> "LT",     precedence |-> 4, right_associative |-> FALSE],
       [op_type |-> "LE",     precedence |-> 4, right_associative |-> FALSE],
       [op_type |-> "GT",     precedence |-> 4, right_associative |-> FALSE],
       [op_type |-> "GE",     precedence |-> 4, right_associative |-> FALSE],
       [op_type |-> "ADD",    precedence |-> 5, right_associative |-> FALSE],
       [op_type |-> "SUB",    precedence |-> 5, right_associative |-> FALSE],
       [op_type |-> "MUL",    precedence |-> 6, right_associative |-> FALSE],
       [op_type |-> "DIV",    precedence |-> 6, right_associative |-> FALSE],
       [op_type |-> "MATMUL", precedence |-> 6, right_associative |-> FALSE],
       [op_type |-> "POW",    precedence |-> 7, right_associative |-> TRUE] >>

\* the first row of OPERATOR_TABLE for op_type, 0 when there is none
TableRow(op_type) ==
    LET rows == {i \in 1..Len(OPERATOR_TABLE) : OPERATOR_TABLE[i].op_type = op_type}
    IN  IF rows = {} THEN 0 ELSE CHOOSE i \in rows : \A j \in rows : i <= j

\* Parser::get_precedence
get_precedence(token_type) ==
    LET i == TableRow(token_to_binary_op(token_type))
    IN  IF i = 0 THEN 0 ELSE OPERATOR_TABLE[i].precedence

\* no operator is right-associative
is_right_associative_Never(token_type) == FALSE

\* Parser::is_right_associative
is_right_associative(token_type) ==
    LET i == TableRow(token_to_binary_op(token_type))
    IN  IF i = 0 THEN FALSE ELSE OPERATOR_TABLE[i].right_associative

DigitValue(ch) ==
    CASE ch = "0" -> 0 [] ch = "1" -> 1 [] ch = "2" -> 2 [] ch = "3" -> 3
      [] ch = "4" -> 4 [] ch = "5" -> 5 [] ch = "6" -> 6 [] ch = "7" -> 7
      [] ch = "8" -> 8 [] ch = "9" -> 9

RECURSIVE DigitsPrefix(_, _)
\* the digits text[from..] starts with
DigitsPrefix(text, from) ==
    IF from <= Len(text) /\ text[from] \in Digits
    THEN <<text[from]>> \o DigitsPrefix(text, from + 1)
    ELSE <<>>

RECURSIVE DecimalValue(_, _)
DecimalValue(digits, acc) ==
    IF digits = <<>> THEN acc
    ELSE DecimalValue(Tail(digits), 10 * acc + DigitValue(Head(digits)))

RECURSIVE DigitsLess(_, _)
\* for digit strings of one length: a < b
DigitsLess(a, b) ==
    IF a = <<>> THEN FALSE
    ELSE IF DigitValue(Head(a)) # DigitValue(Head(b))
    THEN DigitValue(Head(a)) < DigitValue(Head(b))
    ELSE DigitsLess(Tail(a), Tail(b))

\* the digits of INT64_MAX, 9223372036854775807
Int64MaxDigits ==
    <<"9", "2", "2", "3", "3", "7", "2", "0", "3", "6", "8", "5", "4", "7",
      "7", "5", "8", "0", "7">>

\* std::stoll on a token's text: the digits the text starts with are
\* converted; std::invalid_argument when there are none, std::out_of_range
\* when the number is beyond INT64_MAX.  (Values that fit 64 bits but not the
\* model checker's integers are not among the inputs of this model.)
StoLL(text) ==
    LET ds == DigitsPrefix(text, 1)
        out_of_range == \/ Len(ds) > Len(Int64MaxDigits)
                        \/ /\ Len(ds) = Len(Int64MaxDigits)
                           /\ DigitsLess(Int64MaxDigits, ds)
    IN  IF ds = <<>> \/ out_of_range THEN [throws |-> TRUE, value |-> 0]
        ELSE [throws |-> FALSE, value |-> DecimalValue(ds, 0)]

RECURSIVE Pow10(_)
Pow10(k) == IF k = 0 THEN 1 ELSE 10 * Pow10(k - 1)

RECURSIVE Gcd(_, _)
Gcd(a, b) == IF b = 0 THEN a ELSE Gcd(b, a % b)

Abs(x) == IF x < 0 THEN -x ELSE x

\* A double is kept as the rational number it was computed from, in lowest
\* terms with a positive denominator: a record [num, den].
Rat(n, d) ==
    LET g == Gcd(Abs(n), Abs(d))
        s == IF d < 0 THEN -1 ELSE 1
    IN  [num |-> s * (n \div g), den |-> s * (d \div g)]

\* std::stod on a token's text "digits[.digits][e[+-]digits]"; an exponent
\* without digits is not converted; std::out_of_range beyond the decimal
\* exponent range of a double.
StoD(text) ==
    LET ip   == DigitsPrefix(text, 1)
        p1   == Len(ip) + 1
        dot  == p1 <= Len(text) /\ text[p1] = "."
        fp   == IF dot THEN DigitsPrefix(text, p1 + 1) ELSE <<>>
        p2   == IF dot THEN p1 + 1 + Len(fp) ELSE p1
        e    == p2 <= Len(text) /\ text[p2] \in {"e", "E"}
        sg   == e /\ p2 + 1 <= Len(text) /\ text[p2 + 1] \in {"+", "-"}
        p3   == IF sg THEN p2 + 2 ELSE p2 + 1
        ep   == IF e THEN DigitsPrefix(text, p3) ELSE <<>>
        neg  == sg /\ text[p2 + 1] = "-"
        big  == Len(ep) > 3 \/ DecimalValue(ep, 0) + Len(ip) > 308
        ex   == DecimalValue(ep, 0)
        mant == DecimalValue(ip \o fp, 0)
    IN  IF ip \o fp = <<>> \/ big THEN [throws |-> TRUE, value |-> Rat(0, 1)]
        ELSE [throws |-> FALSE,
              value |-> IF neg
                        THEN Rat(mant, Pow10(Len(fp) + ex))
                        ELSE Rat(mant * Pow10(ex), Pow10(Len(fp)))]

RECURSIVE LinkSiblings(_, _, _)
\* "for (i = 1; i < list.size(); i++) nodes[list[i-1]].next_sibling_index = list[i]"
LinkSiblings(c, list, i) ==
    IF i >= Len(list) THEN c
    ELSE LinkSiblings(SetField(c, list[i], "next_sibling_index", list[i + 1]),
                      list, i + 1)

\* "ctx.nodes[i].f = v;" for every field f of the record fields
SetFields(c, i, fields) ==
    IF c.status # "ok" THEN c ELSE [c EXCEPT !.nodes[i + 1] = fields @@ @]

\* "ctx.strings.add_string(str)" as a change of the context; the handle is
\* add_string(c.strings, str).index
AddString(c, str) ==
    IF c.status # "ok" THEN c
    ELSE [c EXCEPT !.strings = add_string(@, str).strings]

\* "n = create_node(type); ctx.nodes[n].name_index = ctx.strings.add_string(name);"
\* The new node's index is Len(c.nodes).
NamedNode(c, type, name) ==
    SetFields(AddString(create_node(c, type), name), Len(c.nodes),
              [name_index |-> add_string(c.strings, name).index])

\* "if (!match(type)) error_at_current(...)"
Expect(c, type) == IF check(c, type) THEN p_advance(c) ELSE error(c)

(***************************************************************************)
(* Each parsing function is written as a chain of operators: where the     *)
(* code calls another parsing function, the rest of its body is the next   *)
(* operator of the chain, applied to the context the call returns and to   *)
(* the local variables that are still needed.                              *)
(***************************************************************************)
RECURSIVE parse_binary_expression(_, _)
RECURSIVE BinaryLoop(_, _)
RECURSIVE parse_unary_expression(_)
RECURSIVE parse_primary(_)
RECURSIVE ExpressionList(_, _)
RECURSIVE MatrixRows(_, _, _, _)
RECURSIVE parse_matrix_literal(_)
RECURSIVE parse_postfix_expressions(_)

\* Parser::parse_expression
parse_expression(c) == parse_binary_expression(c, 0)

\* Parser::parse_binary_expression
parse_binary_expression(c, min_precedence) ==
    BinaryLoop(parse_unary_expression(c), min_precedence)

\* parser.cpp:372-377, c being the context after right_node was popped
MakeBinaryOp(c, op_token, left_node, right_node) ==
    push_back(SetFields(create_node(c, "BINARY_OP"), Len(c.nodes),
                        [op_type |-> token_to_binary_op(op_token),
                         left_index |-> left_node,
                         right_index |-> right_node]),
              Len(c.nodes))

\* parser.cpp:369-378, c being the context the recursive call returned
BinaryRight(c, min_precedence, op_token, left_node) ==
    BinaryLoop(MakeBinaryOp(pop_back(c), op_token, left_node, StackTop(c)),
               min_precedence)

\* parser.cpp:360
NextMinPrec(op_token) ==
    IF is_right_associative(op_token)
    THEN get_precedence(op_token) ELSE get_precedence(op_token) + 1

\* the loop of Parser::parse_binary_expression (parser.cpp:351-378)
BinaryLoop(c, min_precedence) ==
    IF c.status # "ok" \/ at_end(c) THEN c
    ELSE IF get_precedence(current_token(c).type) < min_precedence THEN c
    ELSE BinaryRight(parse_binary_expression(pop_back(p_advance(c)),
                                             NextMinPrec(current_token(c).type)),
                     min_precedence, current_token(c).type,
                     StackTop(p_advance(c)))

\* parser.cpp:388-395, c being the context the recursive call returned
MakeUnaryOp(c, op_token) ==
    push_back(SetFields(create_node(pop_back(c), "UNARY_OP"), Len(c.nodes),
                        [op_type |-> token_to_unary_op(op_token),
                         operand_index |-> StackTop(c)]),
              Len(c.nodes))

\* Parser::parse_unary_expression
parse_unary_expression(c) ==
    IF c.status # "ok" THEN c
    ELSE IF check(c, "MINUS") \/ check(c, "NOT")
    THEN MakeUnaryOp(parse_unary_expression(p_advance(c)), current_token(c).type)
    ELSE parse_primary(c)

\* "list.push_back(node_stack.back()); node_stack.pop_back(); } while
\* (match(COMMA));", c being the context parse_expression returned
ExpressionListNext(c, list) ==
    IF pop_back(c).status # "ok" THEN [ctx |-> pop_back(c), list |-> list]
    ELSE IF check(c, "COMMA")
    THEN ExpressionList(p_advance(pop_back(c)), Append(list, StackTop(c)))
    ELSE [ctx |-> pop_back(c), list |-> Append(list, StackTop(c))]

\* "do { parse_expression(); list.push_back(node_stack.back());
\*       node_stack.pop_back(); } while (match(COMMA));"
\* (parser.cpp:471-475, 521-526, 534-539): the context and the list after it
ExpressionList(c, list) == ExpressionListNext(parse_expression(c), list)

\* parser.cpp:541-545, r being the row just parsed and before the number of
\* elements ahead of it
MatrixRowCheck(r, before, rows, cols) ==
    IF r.ctx.status # "ok" \/ cols # Len(r.list) - before
    THEN [ctx |-> r.ctx, elements |-> r.list, rows |-> rows, mismatch |-> TRUE]
    ELSE MatrixRows(r.ctx, r.list, rows + 1, cols)

\* the rows after the first of Parser::parse_matrix_literal
\* (parser.cpp:532-546): mismatch says whether a row of another length ended
\* the loop
MatrixRows(c, elements, rows, cols) ==
    IF c.status # "ok" \/ ~check(c, "SEMICOLON")
    THEN [ctx |-> c, elements |-> elements, rows |-> rows, mismatch |-> FALSE]
    ELSE MatrixRowCheck(ExpressionList(p_advance(c), elements), Len(elements),
                        rows, cols)

\* the members parse_matrix_literal writes (parser.cpp:554-558)
MatrixFields(rows, cols, elements) ==
    IF elements = <<>> THEN [rows |-> rows, cols |-> cols]
    ELSE [rows |-> rows, cols |-> cols, elements_start_index |-> elements[1]]

\* parser.cpp:541-565, m being the outcome of the row loops
MatrixFinish(m, matrix_node, cols) ==
    IF m.ctx.status # "ok" THEN m.ctx
    ELSE IF m.mismatch THEN error(m.ctx)
    ELSE IF ~check(m.ctx, "RBRACKET") THEN error(m.ctx)
    ELSE push_back(LinkSiblings(SetFields(p_advance(m.ctx), matrix_node,
                                          MatrixFields(m.rows, cols, m.elements)),
                                m.elements, 1),
                   matrix_node)

\* parser.cpp:528-546, r being the first row
MatrixFirstRow(r, matrix_node) ==
    MatrixFinish(MatrixRows(r.ctx, r.list, 1, Len(r.list)), matrix_node, Len(r.list))

\* Parser::parse_matrix_literal
parse_matrix_literal(c) ==
    IF check(p_advance(c), "RBRACKET")
    THEN MatrixFinish([ctx |-> create_node(p_advance(c), "MATRIX_LITERAL"),
                       elements |-> <<>>, rows |-> 0, mismatch |-> FALSE],
                      Len(c.nodes), 0)
    ELSE MatrixFirstRow(ExpressionList(create_node(p_advance(c), "MATRIX_LITERAL"),
                                       <<>>),
                        Len(c.nodes))

\* parser.cpp:199-203
MakeArrayAccess(c, object_node, index_node) ==
    push_back(SetFields(create_node(c, "ARRAY_ACCESS"), Len(c.nodes),
                        [object_index |-> object_node, index_index |-> index_node]),
              Len(c.nodes))

\* parser.cpp:192-203, c being the context parse_expression returned
PostfixIndex(c, object_node) ==
    parse_postfix_expressions(
        MakeArrayAccess(Expect(pop_back(c), "RBRACKET"), object_node, StackTop(c)))

\* parser.cpp:214-224, c being the context after the '.'
MakeMemberAccess(c, member_name) ==
    push_back(SetFields(AddString(create_node(p_advance(pop_back(c)),
                                              "MEMBER_ACCESS"),
                                  member_name),
                        Len(c.nodes),
                        [object_index |-> StackTop(c),
                         member_name_index |->
                             add_string(c.strings, member_name).index]),
              Len(c.nodes))

\* Parser::parse_postfix_expressions
parse_postfix_expressions(c) ==
    IF c.status # "ok" THEN c
    ELSE IF check(c, "LBRACKET")
    THEN PostfixIndex(parse_expression(pop_back(p_advance(c))),
                      StackTop(p_advance(c)))
    ELSE IF check(c, "DOT")
    THEN IF ~check(p_advance(c), "IDENTIFIER") THEN error(p_advance(c))
         ELSE parse_postfix_expressions(
                  MakeMemberAccess(p_advance(c), current_token(p_advance(c)).value))
    ELSE c

\* the members the function-call branch writes (parser.cpp:482-484)
CallFields(args) ==
    IF args = <<>> THEN [arg_count |-> 0]
    ELSE [arg_count |-> Len(args), args_start_index |-> args[1]]

\* parser.cpp:478-494, r being the argument list parsed
CallFinish(r, func_node) ==
    parse_postfix_expressions(
        push_back(LinkSiblings(SetFields(Expect(r.ctx, "RPAREN"), func_node,
                                         CallFields(r.list)),
                               r.list, 1),
                  func_node))

\* parser.cpp:467-476, c being the context at the '(' with the node made
CallArguments(c, func_node) ==
    IF check(p_advance(c), "RPAREN")
    THEN CallFinish([ctx |-> p_advance(c), list |-> <<>>], func_node)
    ELSE CallFinish(ExpressionList(p_advance(c), <<>>), func_node)

\* a literal's node (parser.cpp:403-438): created, filled, the token consumed,
\* the node pushed
LiteralNode(c, type, fields) ==
    push_back(p_advance(SetFields(create_node(c, type), Len(c.nodes), fields)),
              Len(c.nodes))

\* Parser::parse_primary
parse_primary(c) ==
    IF c.status # "ok" THEN c
    ELSE IF check(c, "INTEGER")
    THEN IF StoLL(current_token(c).value).throws
         THEN Throw(create_node(c, "INTEGER_LITERAL"))
         ELSE LiteralNode(c, "INTEGER_LITERAL",
                          [value |-> StoLL(current_token(c).value).value])
    ELSE IF check(c, "FLOAT")
    THEN IF StoD(current_token(c).value).throws
         THEN Throw(create_node(c, "FLOAT_LITERAL"))
         ELSE LiteralNode(c, "FLOAT_LITERAL",
                          [value |-> StoD(current_token(c).value).value])
    ELSE IF check(c, "STRING")
    THEN LiteralNode(AddString(c, current_token(c).value), "STRING_LITERAL",
                     [string_index |->
                          add_string(c.strings, current_token(c).value).index,
                      length |-> Len(current_token(c).value)])
    ELSE IF check(c, "TRUE") \/ check(c, "FALSE")
    THEN LiteralNode(c, "BOOLEAN_LITERAL", [value |-> check(c, "TRUE")])
    ELSE IF check(c, "LBRACKET") THEN parse_matrix_literal(c)
    ELSE IF check(c, "LPAREN") THEN Expect(parse_expression(p_advance(c)), "RPAREN")
    ELSE IF check(c, "IDENTIFIER")
    THEN IF check(p_advance(c), "LPAREN")
         THEN CallArguments(NamedNode(p_advance(c), "FUNCTION_CALL",
                                      current_token(c).value),
                            Len(c.nodes))
         ELSE parse_postfix_expressions(
                  push_back(NamedNode(p_advance(c), "IDENTIFIER",
                                      current_token(c).value),
                            Len(c.nodes)))
    ELSE error(c)

RECURSIVE parse_statement(_)
RECURSIVE parse_block(_)
RECURSIVE BlockLoop(_, _, _)
RECURSIVE AdoptStatements(_, _, _, _)
RECURSIVE SkipNewlines(_)
RECURSIVE ParameterList(_, _)

\* parser.cpp:590-596, c being the context parse_expression returned
AssignFinish(c, assign_node, target_node) ==
    add_child(SetFields(pop_back(c), assign_node,
                        [target_index |-> target_node, value_index |-> StackTop(c)]),
              ROOT_NODE_INDEX, assign_node)

\* Parser::parse_assignment
parse_assignment(c) ==
    IF c.status # "ok" THEN c
    ELSE IF ~check(c, "IDENTIFIER") THEN error(c)
    ELSE IF ~check(p_advance(c), "ASSIGN") THEN error(p_advance(c))
    ELSE AssignFinish(
             parse_expression(NamedNode(create_node(p_advance(p_advance(c)),
                                                    "ASSIGNMENT"),
                                        "IDENTIFIER", current_token(c).value)),
             Len(c.nodes), Len(c.nodes) + 1)

\* parser.cpp:629-633
IfFinish(c, if_node, condition_node, then_node, else_node) ==
    add_child(SetFields(c, if_node, [condition_index |-> condition_node,
                                     then_block_index |-> then_node,
                                     else_block_index |-> else_node]),
              ROOT_NODE_INDEX, if_node)

\* parser.cpp:622-623, c being the context the else block's parse_block returned
IfElseBlock(c, if_node, condition_node, then_node) ==
    IfFinish(pop_back(c), if_node, condition_node, then_node, StackTop(c))

\* parser.cpp:618-627, c being the context after then_node was popped
IfElse(c, if_node, condition_node, then_node) ==
    IF ~check(c, "ELSE") THEN IfFinish(c, if_node, condition_node, then_node, 0)
    ELSE IF check(p_advance(c), "COLON")
    THEN IfElseBlock(parse_block(p_advance(p_advance(c))), if_node,
                     condition_node, then_node)
    ELSE IfFinish(error(p_advance(c)), if_node, condition_node, then_node, 0)

\* parser.cpp:615-616, c being the context the then block's parse_block returned
IfThen(c, if_node, condition_node) ==
    IfElse(pop_back(c), if_node, condition_node, StackTop(c))

\* parser.cpp:606-614, c being the context parse_expression returned
IfCondition(c, if_node) ==
    IfThen(parse_block(Expect(pop_back(c), "COLON")), if_node, StackTop(c))

\* Parser::parse_if_statement
parse_if_statement(c) ==
    IF c.status # "ok" THEN c
    ELSE IfCondition(parse_expression(create_node(p_advance(c), "IF_STATEMENT")),
                     Len(c.nodes))

\* parser.cpp:652-658, c being the context parse_block returned
WhileBody(c, while_node, condition_node) ==
    add_child(SetFields(pop_back(c), while_node,
                        [condition_index |-> condition_node,
                         body_index |-> StackTop(c)]),
              ROOT_NODE_INDEX, while_node)

\* parser.cpp:643-651, c being the context parse_expression returned
WhileCondition(c, while_node) ==
    WhileBody(parse_block(Expect(pop_back(c), "COLON")), while_node, StackTop(c))

\* Parser::parse_while_statement
parse_while_statement(c) ==
    IF c.status # "ok" THEN c
    ELSE WhileCondition(parse_expression(create_node(p_advance(c),
                                                     "WHILE_STATEMENT")),
                        Len(c.nodes))

\* parser.cpp:696-703, c being the context parse_block returned
ForBody(c, for_node, var_node, iterable_node) ==
    add_child(SetFields(pop_back(c), for_node,
                        [variable_index |-> var_node,
                         iterable_index |-> iterable_node,
                         body_index |-> StackTop(c)]),
              ROOT_NODE_INDEX, for_node)

\* parser.cpp:686-695, c being the context parse_expression returned
ForIterable(c, for_node, var_node) ==
    IF pop_back(c).status # "ok" THEN pop_back(c)
    ELSE IF ~check(c, "COLON") THEN error(pop_back(c))
    ELSE ForBody(parse_block(p_advance(pop_back(c))), for_node, var_node,
                 StackTop(c))

\* parser.cpp:667-685, c being the context after the node was created
ForHeader(c, for_node) ==
    IF ~check(c, "IDENTIFIER") THEN error(c)
    ELSE IF ~check(p_advance(c), "IN") THEN error(p_advance(c))
    ELSE ForIterable(parse_expression(NamedNode(p_advance(p_advance(c)),
                                                "IDENTIFIER",
                                                current_token(c).value)),
                     for_node, Len(c.nodes))

\* Parser::parse_for_statement
parse_for_statement(c) ==
    IF c.status # "ok" THEN c
    ELSE ForHeader(create_node(p_advance(c), "FOR_STATEMENT"), Len(c.nodes))

\* "} while (match(TokenType::COMMA));" (parser.cpp:737)
ParameterNext(c, params) ==
    IF check(c, "COMMA") THEN ParameterList(p_advance(c), params)
    ELSE [ctx |-> c, list |-> params]

\* the parameter loop of Parser::parse_function_definition (parser.cpp:727-737)
ParameterList(c, params) ==
    IF c.status # "ok" THEN [ctx |-> c, list |-> params]
    ELSE IF ~check(c, "IDENTIFIER") THEN [ctx |-> error(c), list |-> params]
    ELSE ParameterNext(p_advance(NamedNode(c, "IDENTIFIER", current_token(c).value)),
                       Append(params, Len(c.nodes)))

\* the members parse_function_definition writes (parser.cpp:753-757)
FunctionFields(params, body_node) ==
    IF params = <<>> THEN [param_count |-> 0, body_index |-> body_node]
    ELSE [param_count |-> Len(params), body_index |-> body_node,
          params_start_index |-> params[1]]

\* parser.cpp:750-764, c being the context parse_block returned
FunctionFinish(c, func_node, params) ==
    add_child(LinkSiblings(SetFields(pop_back(c), func_node,
                                     FunctionFields(params, StackTop(c))),
                           params, 1),
              ROOT_NODE_INDEX, func_node)

\* parser.cpp:740-749, p being the parameter list parsed
FunctionBody(p, func_node) ==
    FunctionFinish(parse_block(Expect(Expect(p.ctx, "RPAREN"), "COLON")),
                   func_node, p.list)

\* parser.cpp:725-738, c being the context after the '('
FunctionParams(c, func_node) ==
    IF check(c, "RPAREN") THEN FunctionBody([ctx |-> c, list |-> <<>>], func_node)
    ELSE FunctionBody(ParameterList(c, <<>>), func_node)

\* Parser::parse_function_definition
parse_function_definition(c) ==
    IF c.status # "ok" THEN c
    ELSE IF ~check(p_advance(c), "IDENTIFIER") THEN error(p_advance(c))
    ELSE FunctionParams(Expect(NamedNode(p_advance(p_advance(c)), "FUNCTION_DEF",
                                         current_token(p_advance(c)).value),
                               "LPAREN"),
                        Len(c.nodes))

\* "for (i = stmt_start; i < nodes.size(); i++) if (nodes[i].parent_index ==
\*  ROOT_NODE_INDEX) { statements.push_back(i); nodes[i].parent_index =
\*  block_node; }" (parser.cpp:788-793)
AdoptStatements(c, block_node, i, statements) ==
    IF c.status # "ok" \/ i >= Len(c.nodes)
    THEN [ctx |-> c, list |-> statements]
    ELSE IF NodeAt(c, i).parent_index = ROOT_NODE_INDEX
    THEN AdoptStatements(SetField(c, i, "parent_index", block_node),
                         block_node, i + 1, Append(statements, i))
    ELSE AdoptStatements(c, block_node, i + 1, statements)

\* the next round of the statement loop, a being what AdoptStatements returned
BlockAdopt(a, block_node) == BlockLoop(a.ctx, block_node, a.list)

\* the statement loop of Parser::parse_block (parser.cpp:779-794)
BlockLoop(c, block_node, statements) ==
    IF c.status # "ok" \/ check(c, "DEDENT") \/ at_end(c)
    THEN [ctx |-> c, list |-> statements]
    ELSE IF check(c, "NEWLINE") THEN BlockLoop(p_advance(c), block_node, statements)
    ELSE BlockAdopt(AdoptStatements(parse_statement(c), block_node, Len(c.nodes),
                                    statements),
                    block_node)

\* the members parse_block writes (parser.cpp:800-802)
BlockFields(statements) ==
    IF statements = <<>> THEN [statement_count |-> 0]
    ELSE [statement_count |-> Len(statements),
          statements_start_index |-> statements[1]]

\* parser.cpp:796-809, b being the outcome of the statement loop
BlockFinish(b, block_node) ==
    push_back(LinkSiblings(SetFields(Expect(b.ctx, "DEDENT"), block_node,
                                     BlockFields(b.list)),
                           b.list, 1),
              block_node)

\* Parser::parse_block
parse_block(c) ==
    IF c.status # "ok" THEN c
    ELSE BlockFinish(BlockLoop(create_node(Expect(Expect(c, "NEWLINE"), "INDENT"),
                                           "BLOCK"),
                               Len(c.nodes), <<>>),
                     Len(c.nodes))

\* "while (match(TokenType::NEWLINE)) {}"
SkipNewlines(c) ==
    IF c.status = "ok" /\ check(c, "NEWLINE") THEN SkipNewlines(p_advance(c)) ELSE c

\* parser.cpp:311-318, c being the context parse_expression returned
ReturnValue(c, return_node) ==
    add_child(SetFields(pop_back(c), return_node, [value_index |-> StackTop(c)]),
              ROOT_NODE_INDEX, return_node)

\* parser.cpp:308-318, c being the context after the node was created
ReturnNode(c, return_node) ==
    IF ~check(c, "NEWLINE") /\ ~at_end(c)
    THEN ReturnValue(parse_expression(push_back(c, return_node)), return_node)
    ELSE add_child(SetFields(c, return_node, [value_index |-> 0]),
                   ROOT_NODE_INDEX, return_node)

\* the return branch of Parser::parse_statement (parser.cpp:304-320)
ParseReturnStatement(c) ==
    ReturnNode(create_node(p_advance(c), "RETURN_STATEMENT"), Len(c.nodes))

\* parser.cpp:336-341, c being the context parse_expression returned
ExpressionStatementFinish(c, expr_stmt_node) ==
    IF c.status # "ok" \/ c.node_stack = <<>> THEN c
    ELSE add_child(SetFields(pop_back(c), expr_stmt_node,
                             [expression_index |-> StackTop(c)]),
                   ROOT_NODE_INDEX, expr_stmt_node)

\* the expression-statement branch of Parser::parse_statement
\* (parser.cpp:331-341)
ParseExpressionStatement(c) ==
    ExpressionStatementFinish(
        parse_expression(push_back(create_node(c, "EXPRESSION_STATEMENT"),
                                   Len(c.nodes))),
        Len(c.nodes))

\* parser.cpp:280-341, c being the context after the newlines were skipped
StatementDispatch(c) ==
    IF c.status # "ok" \/ at_end(c) THEN c
    ELSE IF check(c, "FUNCTION") THEN parse_function_definition(c)
    ELSE IF check(c, "IF") THEN parse_if_statement(c)
    ELSE IF check(c, "WHILE") THEN parse_while_statement(c)
    ELSE IF check(c, "FOR") THEN parse_for_statement(c)
    ELSE IF check(c, "RETURN") THEN ParseReturnStatement(c)
    ELSE IF check(c, "IDENTIFIER") /\ peek_token(c).type = "ASSIGN"
    THEN parse_assignment(c)
    ELSE ParseExpressionStatement(c)

\* Parser::parse_statement
parse_statement(c0) == StatementDispatch(SkipNewlines(c0))

---------------------------------------------------------------------------
(***************************************************************************)
(* Source texts: at most MaxLines lines drawn from Lines, joined by        *)
(* newlines, with or without a newline after the last line.                *)
(***************************************************************************)
MaxLines == 3

Lines ==
    { <<"a">>,
      <<" ", " ", "b">>,
      <<" ", " ", " ", " ", "c", "=", "1">>,
      <<" ", " ", " ", "d">>,
      <<" ", " ", " ", " ", " ", " ", "h">>,
      <<"\t", "e">>,
      <<"\t", "\t", "f">>,
      <<" ", "\t", "g">>,
      <<>>,
      <<" ", " ">>,
      <<" ", " ", "\\", "c">>,
      <<" ", " ", "+", "1">>,
      <<"i", "f", " ", "x", ":", " ">> }

RECURSIVE JoinLines(_)
JoinLines(ls) ==
    IF ls = <<>> THEN <<>>
    ELSE IF Len(ls) = 1 THEN Head(ls)
    ELSE Head(ls) \o <<"\n">> \o JoinLines(Tail(ls))

Sources ==
    {JoinLines(ls) \o tail : ls \in SeqsUpTo(Lines, MaxLines), tail \in {<<>>, <<"\n">>}}

---------------------------------------------------------------------------
(***************************************************************************)
(* Lexer::tokenize as a state machine: one step per iteration of its main  *)
(* loop, and one step for the closing DEDENT loop and the return.          *)
(***************************************************************************)
LexerStart ==
    /\ \E src \in Sources, pc \in BOOLEAN :
          lexer = NewLexer(src, TabSize, pc)
    /\ tokens = <<>>
    /\ at_line_start = TRUE
    /\ lex_pc = "loop"

\* no Lexer at work
LexerIdle ==
    /\ lexer = NewLexer(<<>>, TabSize, FALSE)
    /\ tokens = <<>>
    /\ at_line_start = TRUE
    /\ lex_pc = "idle"

\* One iteration of the main loop of Lexer::tokenize (lexer.cpp:425-452) from
\* the lexer L, the token vector toks and the flag als: the three after it,
\* and where control goes ("loop", "final" after the break or when the loop
\* condition fails, "threw").
TokenizeIteration(L, toks, als) ==
    IF L.current_char = NUL
    THEN [lexer |-> L, tokens |-> toks, at_line_start |-> als, pc |-> "final"]
    ELSE IF als
    THEN LET r == handle_indentation(L)
         IN  IF r.lexer.threw
             THEN [lexer |-> r.lexer, tokens |-> toks, at_line_start |-> als,
                   pc |-> "threw"]
             ELSE [lexer |-> r.lexer, tokens |-> toks \o r.tokens,
                   at_line_start |-> FALSE, pc |-> "loop"]
    ELSE LET r == next_token(L)
             skip == ~L.preserve_comments /\ r.token.type = "COMMENT"
         IN  IF r.lexer.threw
             THEN [lexer |-> r.lexer, tokens |-> toks, at_line_start |-> als,
                   pc |-> "threw"]
             ELSE [lexer |-> r.lexer,
                   tokens |-> IF skip THEN toks ELSE Append(toks, r.token),
                   at_line_start |-> r.token.type = "NEWLINE",
                   pc |-> IF r.token.type = "EOF_TOKEN" THEN "final" ELSE "loop"]

RECURSIVE TokenizeFrom(_, _, _)
\* Lexer::tokenize run to its end: whether it threw, and the vector returned
TokenizeFrom(L, toks, als) ==
    LET r == TokenizeIteration(L, toks, als)
    IN  IF r.pc = "threw" THEN [threw |-> TRUE, tokens |-> <<>>]
        ELSE IF r.pc = "final"
        THEN [threw |-> FALSE,
              tokens |-> FinalDedents(r.lexer.indent_stack, r.tokens).tokens]
        ELSE TokenizeFrom(r.lexer, r.tokens, r.at_line_start)

\* Lexer(source).tokenize() with the constructor's default arguments
tokenize(source_code) == TokenizeFrom(NewLexer(source_code, TabSize, FALSE), <<>>, TRUE)

\* lexer.cpp:427-432
TokenizeIndent ==
    /\ UNCHANGED <<parsevars, runvars>>
    /\ lex_pc = "loop"
    /\ lexer.current_char # NUL
    /\ at_line_start
    /\ LET r == TokenizeIteration(lexer, tokens, at_line_start)
       IN  /\ lexer' = r.lexer
           /\ tokens' = r.tokens
           /\ at_line_start' = r.at_line_start
           /\ lex_pc' = r.pc

\* lexer.cpp:434-451
TokenizeToken ==
    /\ UNCHANGED <<parsevars, runvars>>
    /\ lex_pc = "loop"
    /\ lexer.current_char # NUL
    /\ ~at_line_start
    /\ LET r == TokenizeIteration(lexer, tokens, at_line_start)
       IN  /\ lexer' = r.lexer
           /\ tokens' = r.tokens
           /\ at_line_start' = r.at_line_start
           /\ lex_pc' = r.pc

\* the loop condition of lexer.cpp:425 fails
TokenizeLoopExit ==
    /\ UNCHANGED <<parsevars, runvars>>
    /\ lex_pc = "loop"
    /\ lexer.current_char = NUL
    /\ lex_pc' = "final"
    /\ UNCHANGED <<lexer, tokens, at_line_start>>

\* lexer.cpp:454-460
TokenizeFinish ==
    /\ UNCHANGED <<parsevars, runvars>>
    /\ lex_pc = "final"
    /\ LET f == FinalDedents(lexer.indent_stack, tokens)
       IN  /\ lexer' = [lexer EXCEPT !.indent_stack = f.indent_stack]
           /\ tokens' = f.tokens
    /\ lex_pc' = "returned"
    /\ UNCHANGED at_line_start

---------------------------------------------------------------------------
(***************************************************************************)
(* Token vectors handed to the parser: every vector of at most MaxTokens   *)
(* tokens of TokenAlphabet, and the tokenizations of the Programs.         *)
(***************************************************************************)
MaxTokens == 4

TokenAlphabet ==
    { Token("IDENTIFIER", <<"x">>),
      Token("ASSIGN", <<"=">>),
      Token("INTEGER", <<"1">>),
      Token("INTEGER", <<"9", "9", "9", "9", "9", "9", "9", "9", "9", "9",
                         "9", "9", "9", "9", "9", "9", "9", "9", "9", "9">>),
      Token("NEWLINE", <<"\n">>),
      Token("FOR", <<"f", "o", "r">>),
      Token("IN", <<"i", "n">>),
      Token("RETURN", <<"r", "e", "t", "u", "r", "n">>),
      Token("COLON", <<":">>) }

\* Test 4 of the parser's driver (src/unnamed/part_005:64):
\*     x = 1
\*     @invalid_token
\*     y = 2
ErrorRecoveryProgram ==
    <<"x", " ", "=", " ", "1", "\n", "@", "i", "n", "v", "a", "l", "i", "d",
      "_", "t", "o", "k", "e", "n", "\n", "y", " ", "=", " ", "2", "\n">>

\* a compound statement with two statements in its body:
\*     function f():
\*         x = 1
\*         y = 2
BlockProgram ==
    <<"f", "u", "n", "c", "t", "i", "o", "n", " ", "f", "(", ")", ":", "\n",
      " ", " ", " ", " ", "x", " ", "=", " ", "1", "\n",
      " ", " ", " ", " ", "y", " ", "=", " ", "2", "\n">>

\* two assignments on consecutive lines:
\*     x = 1
\*     y = 2
ConsecutiveAssignments ==
    <<"x", " ", "=", " ", "1", "\n", "y", " ", "=", " ", "2", "\n">>

Programs ==
    { ErrorRecoveryProgram, BlockProgram, ConsecutiveAssignments,
      \* if x: / y = 1 / else: / y = 2
      <<"i", "f", " ", "x", ":", "\n", " ", " ", "y", " ", "=", " ", "1", "\n",
        "e", "l", "s", "e", ":", "\n", " ", " ", "y", " ", "=", " ", "2", "\n">>,
      \* function f(a, b): / return a
      <<"f", "u", "n", "c", "t", "i", "o", "n", " ", "f", "(", "a", ",", " ", "b",
        ")", ":", "\n", "\t", "r", "e", "t", "u", "r", "n", " ", "a", "\n">>,
      \* print("Hello Dakota")
      <<"p", "r", "i", "n", "t", "(", "\"", "H", "e", "l", "l", "o", " ", "D",
        "a", "k", "o", "t", "a", "\"", ")", "\n">>,
      \* x = 1 / @invalid_token / y = 2
      <<"x", " ", "=", " ", "1", "\n", "@", "i", "n", "v", "a", "l", "i", "d",
        "\n", "y", " ", "=", " ", "2", "\n">>,
      \* for 1 / while
      <<"f", "o", "r", " ", "1", "\n", "w", "h", "i", "l", "e">>,
      \* for x in [1, 2; 3, 4] + m[0].t * -2.5 ** 2
      <<"f", "o", "r", " ", "x", " ", "i", "n", " ", "[", "1", ",", " ", "2", ";",
        " ", "3", ",", " ", "4", "]", " ", "+", " ", "m", "[", "0", "]", ".", "t",
        " ", "*", " ", "-", "2", ".", "5", " ", "*", "*", " ", "2">> }

TokenVectors ==
    SeqsUpTo(TokenAlphabet, MaxTokens) \cup {tokenize(src).tokens : src \in Programs}

---------------------------------------------------------------------------
(***************************************************************************)
(* Parser::parse as a state machine: one step per iteration of the loop of *)
(* Parser::parse_program, one for the return.                              *)
(***************************************************************************)
\* the spellings of the binary operators, in the order of OPERATOR_TABLE
OperatorTexts ==
    << <<"o", "r">>, <<"a", "n", "d">>, <<"=", "=">>, <<"!", "=">>, <<"<">>,
       <<"<", "=">>, <<">">>, <<">", "=">>, <<"+">>, <<"-">>, <<"*">>, <<"/">>,
       <<"m", "u", "l", "t">>, <<"*", "*">> >>

\* the spellings of the unary operators
UnaryTexts == << <<"-">>, <<"n", "o", "t">> >>

\* "for x in ", the statement the expressions below are the iterable of
ForIn == <<"f", "o", "r", " ", "x", " ", "i", "n", " ">>

\* for x in 1 op1 2 op2 3
BinarySource(op1, op2) ==
    ForIn \o <<"1", " ">> \o OperatorTexts[op1] \o <<" ", "2", " ">>
          \o OperatorTexts[op2] \o <<" ", "3">>

\* for x in u 1 op 2
UnarySource(u, op) ==
    ForIn \o UnaryTexts[u] \o <<" ", "1", " ">> \o OperatorTexts[op]
          \o <<" ", "2">>

\* for x in 1 op1 u 2 op2 3
UnaryInnerSource(op1, u, op2) ==
    ForIn \o <<"1", " ">> \o OperatorTexts[op1] \o <<" ">> \o UnaryTexts[u]
          \o <<" ", "2", " ">> \o OperatorTexts[op2] \o <<" ", "3">>

ExpressionSources ==
    {BinarySource(op1, op2) : op1, op2 \in DOMAIN OperatorTexts}
    \cup {UnarySource(u, op) : u \in DOMAIN UnaryTexts, op \in DOMAIN OperatorTexts}
    \cup {UnaryInnerSource(op1, u, op2) :
              op1 \in DOMAIN OperatorTexts, u \in DOMAIN UnaryTexts,
              op2 \in DOMAIN OperatorTexts}

ExpressionTokenVectors == {tokenize(src).tokens : src \in ExpressionSources}

ParserStart ==
    /\ \E toks \in TokenVectors \cup ExpressionTokenVectors : ctx = NewParser(toks)
    /\ parse_pc = "loop"

\* no Parser at work
ParserIdle ==
    /\ ctx = NewParser(<<>>)
    /\ parse_pc = "idle"

\* "if (ctx.has_error) { ctx.has_error = false; synchronize(); }"
\* (parser.cpp:269-272)
ResetAndSynchronize(c) == synchronize([c EXCEPT !.has_error = FALSE])

\* parser.cpp:255-272, c being the context parse_statement left
AfterStatement(c, start_token) ==
    IF c.status = "throw" THEN synchronize(error([c EXCEPT !.status = "ok"]))
    ELSE IF c.status # "ok" THEN c
    ELSE IF c.current_token = start_token /\ ~at_end(c) THEN synchronize(error(c))
    ELSE IF c.has_error THEN ResetAndSynchronize(c)
    ELSE c

\* the body of the loop of Parser::parse_program (parser.cpp:247-272) on a
\* context that is not at_end
ProgramIteration(c) ==
    IF check(c, "NEWLINE") THEN p_advance(c)
    ELSE AfterStatement(parse_statement(c), c.current_token)

\* parser.cpp:246-273
ParseProgramIteration ==
    /\ parse_pc = "loop"
    /\ ~at_end(ctx)
    /\ ctx' = ProgramIteration(ctx)
    /\ parse_pc' = CASE ctx'.status = "hang" -> "hang"
                     [] ctx'.status = "ub" -> "undefined"
                     [] OTHER -> "loop"
    /\ UNCHANGED <<lexvars, runvars>>

\* the loop of parse_program ends, parse_program and parse return
\* (parser.cpp:233-236)
ParseReturn ==
    /\ parse_pc = "loop"
    /\ at_end(ctx)
    /\ parse_pc' = "returned"
    /\ UNCHANGED <<ctx, lexvars, runvars>>

\* After undefined behaviour the call may do anything: not return, end the
\* process, or return with any flag.  ctx.status stays "ub".
ParseUndefined ==
    /\ parse_pc = "undefined"
    /\ \E outcome \in {"hang", "crashed", "returned"}, flag \in BOOLEAN :
          /\ parse_pc' = outcome
          /\ ctx' = [ctx EXCEPT !.has_error = flag]
    /\ UNCHANGED <<lexvars, runvars>>

---------------------------------------------------------------------------
(***************************************************************************)
(* VALUES AND ENVIRONMENTS (src/src/interpreter.h, src/src/interpreter.cpp)*)
(*                                                                         *)
(* A Value is a record of its type tag and its variant; a double is the    *)
(* rational it holds.  Environment objects are held by std::shared_ptr:    *)
(* they live in a heap, a sequence of frames, and a pointer to one is its  *)
(* position in the heap, nullptr being 0.                                  *)
(***************************************************************************)
\* Value::Value()
None == [type |-> "NONE", v |-> 0]

\* Value::Value(int64_t)
IntegerValue(val) == [type |-> "INTEGER", v |-> val]

\* Value::Value(double)
FloatValue(val) == [type |-> "FLOAT", v |-> val]

\* Value::Value(const std::string&)
StringValue(val) == [type |-> "STRING", v |-> val]

\* Value::Value(bool)
BooleanValue(val) == [type |-> "BOOLEAN", v |-> val]

\* Value::Value(const std::vector<std::vector<double>>&)
MatrixValue(val) == [type |-> "MATRIX", v |-> val]

nullptr == 0

\* Environment::Environment: no variables, the parent given
Environment(parent) == [variables |-> [n \in {} |-> None], parent |-> parent]

\* std::make_shared<Environment>(parent): the heap after the call; the new
\* object is the last of it
make_shared(heap, parent) == Append(heap, Environment(parent))

\* Environment::define on the frame f of the heap
define(heap, f, name, value) ==
    [heap EXCEPT ![f].variables = (name :> value) @@ @]

RECURSIVE get(_, _, _)
\* Environment::get on the frame f of the heap; found = FALSE stands for the
\* RuntimeError "Undefined variable"
get(heap, f, name) ==
    IF name \in DOMAIN heap[f].variables
    THEN [found |-> TRUE, value |-> heap[f].variables[name]]
    ELSE IF heap[f].parent # nullptr THEN get(heap, heap[f].parent, name)
    ELSE [found |-> FALSE, value |-> None]

RECURSIVE assign_Outermost(_, _, _, _)
\* an assign that always writes to the frame without parent
assign_Outermost(heap, f, name, value) ==
    IF heap[f].parent # nullptr THEN assign_Outermost(heap, heap[f].parent, name, value)
    ELSE define(heap, f, name, value)

RECURSIVE assign(_, _, _, _)
\* Environment::assign on the frame f of the heap.  No statement of assign
\* throws, so the call on the parent always returns and the handler of
\* RuntimeError (interpreter.cpp:494-496) is never entered: the last line of
\* the function is reached only in a frame without parent.
assign(heap, f, name, value) ==
    IF name \in DOMAIN heap[f].variables
    THEN [heap EXCEPT ![f].variables[name] = value]
    ELSE IF heap[f].parent # nullptr THEN assign(heap, heap[f].parent, name, value)
    ELSE define(heap, f, name, value)

(***************************************************************************)
(* The class Environment used on its own: frames are made, and define, get *)
(* and assign are called on them.  env.call is the call made last.         *)
(***************************************************************************)
MaxFrames == 3

EnvNames == {<<"x">>, <<"y">>}

EnvValues == {IntegerValue(1), IntegerValue(2)}

EnvCall(op, f, name, value, found) ==
    [op |-> op, frame |-> f, name |-> name, value |-> value, found |-> found]

\* no Environment object yet
EnvIdle == env = [frames |-> <<>>, call |-> EnvCall("none", nullptr, <<>>, None, FALSE)]

\* "std::make_shared<Environment>(parent)"
EnvNew ==
    /\ Len(env.frames) < MaxFrames
    /\ \E parent \in 0 .. Len(env.frames) :
          env' = [frames |-> make_shared(env.frames, parent),
                  call |-> EnvCall("new", Len(env.frames) + 1, <<>>, None, FALSE)]
    /\ UNCHANGED <<lexvars, parsevars, interp, interp_pc, vcall>>

\* "f->define(name, value)"
EnvDefine ==
    /\ \E f \in 1 .. Len(env.frames), name \in EnvNames, value \in EnvValues :
          env' = [frames |-> define(env.frames, f, name, value),
                  call |-> EnvCall("define", f, name, value, FALSE)]
    /\ UNCHANGED <<lexvars, parsevars, interp, interp_pc, vcall>>

\* "f->get(name)": the call record holds what it returned, or found = FALSE
\* when it threw
EnvGet ==
    /\ \E f \in 1 .. Len(env.frames), name \in EnvNames :
          env' = [env EXCEPT !.call = EnvCall("get", f, name,
                                              get(env.frames, f, name).value,
                                              get(env.frames, f, name).found)]
    /\ UNCHANGED <<lexvars, parsevars, interp, interp_pc, vcall>>

\* "f->assign(name, value)"
EnvAssign ==
    /\ \E f \in 1 .. Len(env.frames), name \in EnvNames, value \in EnvValues :
          env' = [frames |-> assign(env.frames, f, name, value),
                  call |-> EnvCall("assign", f, name, value, FALSE)]
    /\ UNCHANGED <<lexvars, parsevars, interp, interp_pc, vcall>>

\* no Interpreter yet
InterpreterIdle ==
    /\ interp = [frames |-> <<>>]
    /\ interp_pc = "idle"

---------------------------------------------------------------------------
(***************************************************************************)
(* VALUE OPERATIONS (src/src/interpreter.cpp:50-461)                       *)
(*                                                                         *)
(* An operation returns a record: throws is "none" and value the result,   *)
(* or throws is "RuntimeError" and what its message (without the names it  *)
(* quotes).  throws is "outside" where the result is one the model does    *)
(* not compute: std::pow, the determinant and the byte order of strings.   *)
(***************************************************************************)
Ok(value) == [throws |-> "none", value |-> value, what |-> ""]

RuntimeError(what) == [throws |-> "RuntimeError", value |-> None, what |-> what]

Outside == [throws |-> "outside", value |-> None, what |-> ""]

\* Value::is_numeric
is_numeric(a) == a.type \in {"INTEGER", "FLOAT"}

\* Value::to_double of a numeric value
to_double(a) == IF a.type = "INTEGER" THEN Rat(a.v, 1) ELSE a.v

\* x + y, x * y, x / y and x < y on doubles
DoubleSum(x, y) == Rat(x.num * y.den + y.num * x.den, x.den * y.den)

DoubleProduct(x, y) == Rat(x.num * y.num, x.den * y.den)

DoubleQuotient(x, y) == Rat(x.num * y.den, x.den * y.num)

DoubleLess(x, y) == x.num * y.den < y.num * x.den

\* Value::is_truthy
is_truthy(a) ==
    CASE a.type = "INTEGER" -> a.v # 0
      [] a.type = "FLOAT" -> a.v.num # 0
      [] a.type = "STRING" -> a.v # <<>>
      [] a.type = "BOOLEAN" -> a.v
      [] a.type = "MATRIX" -> a.v # <<>>
      [] OTHER -> FALSE

\* -x and |x| on doubles
DoubleNegated(x) == Rat(-x.num, x.den)

DoubleAbs(x) == Rat(Abs(x.num), x.den)

\* "a.size() != b.size() || (a.size() > 0 && a[0].size() != b[0].size())"
DimensionsDiffer(a, b) ==
    Len(a) # Len(b) \/ (Len(a) > 0 /\ Len(a[1]) # Len(b[1]))

\* the loops of operator+ (interpreter.cpp:112-118)
MatrixSum(a, b) ==
    [i \in DOMAIN a |-> [j \in DOMAIN a[i] |-> DoubleSum(a[i][j], b[i][j])]]

\* the loops of operator- (interpreter.cpp:137-143)
MatrixDifference(a, b) ==
    [i \in DOMAIN a |->
        [j \in DOMAIN a[i] |-> DoubleSum(a[i][j], DoubleNegated(b[i][j]))]]

\* the loops of operator* (interpreter.cpp:160-166)
MatrixScaled(matrix, scalar) ==
    [i \in DOMAIN matrix |->
        [j \in DOMAIN matrix[i] |-> DoubleProduct(matrix[i][j], scalar)]]

\* the loops of operator/ (interpreter.cpp:188-194)
MatrixDivided(matrix, scalar) ==
    [i \in DOMAIN matrix |->
        [j \in DOMAIN matrix[i] |-> DoubleQuotient(matrix[i][j], scalar)]]

\* Value::operator+
OperatorAdd(a, b) ==
    IF is_numeric(a) /\ is_numeric(b)
    THEN IF a.type = "INTEGER" /\ b.type = "INTEGER"
         THEN Ok(IntegerValue(a.v + b.v))
         ELSE Ok(FloatValue(DoubleSum(to_double(a), to_double(b))))
    ELSE IF a.type = "STRING" /\ b.type = "STRING" THEN Ok(StringValue(a.v \o b.v))
    ELSE IF a.type = "MATRIX" /\ b.type = "MATRIX"
    THEN IF DimensionsDiffer(a.v, b.v)
         THEN RuntimeError("Matrix dimensions don't match for addition")
         ELSE Ok(MatrixValue(MatrixSum(a.v, b.v)))
    ELSE RuntimeError("Cannot add values of these types")

\* Value::operator-
OperatorSub(a, b) ==
    IF is_numeric(a) /\ is_numeric(b)
    THEN IF a.type = "INTEGER" /\ b.type = "INTEGER"
         THEN Ok(IntegerValue(a.v - b.v))
         ELSE Ok(FloatValue(DoubleSum(to_double(a),
                                      DoubleProduct(Rat(-1, 1), to_double(b)))))
    ELSE IF a.type = "MATRIX" /\ b.type = "MATRIX"
    THEN IF DimensionsDiffer(a.v, b.v)
         THEN RuntimeError("Matrix dimensions don't match for subtraction")
         ELSE Ok(MatrixValue(MatrixDifference(a.v, b.v)))
    ELSE RuntimeError("Cannot subtract values of these types")

\* Value::operator*
OperatorMul(a, b) ==
    IF is_numeric(a) /\ is_numeric(b)
    THEN IF a.type = "INTEGER" /\ b.type = "INTEGER"
         THEN Ok(IntegerValue(a.v * b.v))
         ELSE Ok(FloatValue(DoubleProduct(to_double(a), to_double(b))))
    ELSE IF a.type = "MATRIX" /\ is_numeric(b)
    THEN Ok(MatrixValue(MatrixScaled(a.v, to_double(b))))
    ELSE IF is_numeric(a) /\ b.type = "MATRIX"
    THEN Ok(MatrixValue(MatrixScaled(b.v, to_double(a))))
    ELSE RuntimeError("Cannot multiply values of these types")

\* a division that stays in the integers when both operands are Integers
OperatorDiv_IntegerQuotient(a, b) ==
    IF is_numeric(a) /\ is_numeric(b)
    THEN IF to_double(b).num = 0 THEN RuntimeError("Division by zero")
         ELSE IF a.type = "INTEGER" /\ b.type = "INTEGER"
         THEN Ok(IntegerValue(a.v \div b.v))
         ELSE Ok(FloatValue(DoubleQuotient(to_double(a), to_double(b))))
    ELSE IF a.type = "MATRIX" /\ is_numeric(b)
    THEN IF to_double(b).num = 0 THEN RuntimeError("Division by zero")
         ELSE Ok(MatrixValue(MatrixDivided(a.v, to_double(b))))
    ELSE RuntimeError("Cannot divide values of these types")

\* Value::operator/
OperatorDiv(a, b) ==
    IF is_numeric(a) /\ is_numeric(b)
    THEN IF to_double(b).num = 0 THEN RuntimeError("Division by zero")
         ELSE Ok(FloatValue(DoubleQuotient(to_double(a), to_double(b))))
    ELSE IF a.type = "MATRIX" /\ is_numeric(b)
    THEN IF to_double(b).num = 0 THEN RuntimeError("Division by zero")
         ELSE Ok(MatrixValue(MatrixDivided(a.v, to_double(b))))
    ELSE RuntimeError("Cannot divide values of these types")

\* Value::power
power(a, b) ==
    IF is_numeric(a) /\ is_numeric(b) THEN Outside
    ELSE RuntimeError("Power operation requires numeric operands")

RECURSIVE InnerProduct(_, _, _, _, _)
\* "for (k = 0; k < inner; ++k) result[i][j] += a[i][k] * b[k][j];", the sum
\* of the first k products
InnerProduct(a, b, i, j, k) ==
    IF k = 0 THEN Rat(0, 1)
    ELSE DoubleSum(InnerProduct(a, b, i, j, k - 1),
                   DoubleProduct(a[i][k], b[k][j]))

\* Value::matrix_multiply
matrix_multiply(a, b) ==
    IF a.type # "MATRIX" \/ b.type # "MATRIX"
    THEN RuntimeError("Matrix multiplication requires matrix operands")
    ELSE IF a.v = <<>> \/ b.v = <<>> \/ Len(a.v[1]) # Len(b.v)
    THEN RuntimeError("Invalid matrix dimensions for multiplication")
    ELSE Ok(MatrixValue([i \in 1 .. Len(a.v) |->
                            [j \in 1 .. Len(b.v[1]) |->
                                InnerProduct(a.v, b.v, i, j, Len(a.v[1]))]]))

\* the augmented matrix [A|I] (interpreter.cpp:325-334)
Augmented(matrix) ==
    [i \in DOMAIN matrix |->
        [j \in 1 .. 2 * Len(matrix) |->
            IF j <= Len(matrix) THEN matrix[i][j]
            ELSE IF j - Len(matrix) = i THEN Rat(1, 1) ELSE Rat(0, 1)]]

RECURSIVE PivotRow(_, _, _, _)
\* the search for the pivot of column i (interpreter.cpp:339-344): k is the
\* row looked at, pivot_row the row of the largest entry so far
PivotRow(augmented, i, k, pivot_row) ==
    IF k > Len(augmented) THEN pivot_row
    ELSE IF DoubleLess(DoubleAbs(augmented[pivot_row][i]), DoubleAbs(augmented[k][i]))
    THEN PivotRow(augmented, i, k + 1, k)
    ELSE PivotRow(augmented, i, k + 1, pivot_row)

\* "std::swap(augmented[i], augmented[pivot_row]);"
SwapRows(augmented, i, pivot_row) ==
    [augmented EXCEPT ![i] = augmented[pivot_row], ![pivot_row] = augmented[i]]

\* "augmented[i][j] /= pivot;" for every j
ScalePivotRow(augmented, i) ==
    [augmented EXCEPT
        ![i] = [j \in DOMAIN augmented[i] |->
                   DoubleQuotient(augmented[i][j], augmented[i][i])]]

\* "augmented[k][j] -= factor * augmented[i][j];" for every k # i and j
EliminateColumn(augmented, i) ==
    [k \in DOMAIN augmented |->
        IF k = i THEN augmented[i]
        ELSE [j \in DOMAIN augmented[k] |->
                 DoubleSum(augmented[k][j],
                           DoubleNegated(DoubleProduct(augmented[k][i],
                                                       augmented[i][j])))]]

RECURSIVE GaussJordan(_, _)
\* interpreter.cpp:346-369, pivot_row being the row found for column i.  The
\* doubles of the model have denominators far below 10^10: a pivot is below
\* 1e-10 in absolute value only when it is 0.
GaussPivot(augmented, i, pivot_row) ==
    IF augmented[pivot_row][i].num = 0 THEN [singular |-> TRUE, augmented |-> augmented]
    ELSE GaussJordan(EliminateColumn(ScalePivotRow(SwapRows(augmented, i, pivot_row),
                                                   i), i),
                     i + 1)

\* the loop of interpreter.cpp:337-370 from column i on
GaussJordan(augmented, i) ==
    IF i > Len(augmented) THEN [singular |-> FALSE, augmented |-> augmented]
    ELSE GaussPivot(augmented, i, PivotRow(augmented, i, i + 1, i))

\* interpreter.cpp:372-380, g being what the elimination left
InverseOf(g, n) ==
    IF g.singular THEN RuntimeError("Matrix is singular (not invertible)")
    ELSE Ok(MatrixValue([i \in 1 .. n |-> [j \in 1 .. n |-> g.augmented[i][j + n]]]))

\* Value::inverse
inverse(a) ==
    IF a.type # "MATRIX" THEN RuntimeError("Inverse operation requires a matrix")
    ELSE IF a.v = <<>> \/ Len(a.v) # Len(a.v[1])
    THEN RuntimeError("Inverse requires a square matrix")
    ELSE InverseOf(GaussJordan(Augmented(a.v), 1), Len(a.v))

\* Value::operator==.  Two doubles of the model are rationals whose
\* denominators are far below 10^10: they are less than 1e-10 apart only
\* when they are equal.
OperatorEq(a, b) ==
    IF a.type # b.type THEN Ok(BooleanValue(FALSE))
    ELSE IF a.type = "NONE" THEN Ok(BooleanValue(TRUE))
    ELSE Ok(BooleanValue(a.v = b.v))

\* Value::operator!=
OperatorNe(a, b) == Ok(BooleanValue(~OperatorEq(a, b).value.v))

\* Value::operator<
OperatorLt(a, b) ==
    IF is_numeric(a) /\ is_numeric(b)
    THEN Ok(BooleanValue(DoubleLess(to_double(a), to_double(b))))
    ELSE IF a.type = "STRING" /\ b.type = "STRING" THEN Outside
    ELSE RuntimeError("Cannot compare values of these types")

\* Value::operator<=
OperatorLe(a, b) ==
    IF OperatorLt(a, b).throws # "none" THEN OperatorLt(a, b)
    ELSE Ok(BooleanValue(OperatorLt(a, b).value.v \/ OperatorEq(a, b).value.v))

\* Value::operator>
OperatorGt(a, b) ==
    IF OperatorLe(a, b).throws # "none" THEN OperatorLe(a, b)
    ELSE Ok(BooleanValue(~OperatorLe(a, b).value.v))

\* Value::operator>=
OperatorGe(a, b) ==
    IF OperatorLt(a, b).throws # "none" THEN OperatorLt(a, b)
    ELSE Ok(BooleanValue(~OperatorLt(a, b).value.v))

\* Value::logical_and
logical_and(a, b) == Ok(BooleanValue(is_truthy(a) /\ is_truthy(b)))

\* Value::logical_or
logical_or(a, b) == Ok(BooleanValue(is_truthy(a) \/ is_truthy(b)))

\* Value::logical_not
logical_not(a) == Ok(BooleanValue(~is_truthy(a)))

\* Value::negate
negate(a) ==
    IF a.type = "INTEGER" THEN Ok(IntegerValue(-a.v))
    ELSE IF a.type = "FLOAT" THEN Ok(FloatValue(Rat(-a.v.num, a.v.den)))
    ELSE IF a.type = "MATRIX"
    THEN Ok(MatrixValue([i \in DOMAIN a.v |->
                            [j \in DOMAIN a.v[i] |-> Rat(-a.v[i][j].num,
                                                         a.v[i][j].den)]]))
    ELSE RuntimeError("Cannot negate this value type")

\* Value::transpose.  The rows of a matrix Value have one length (the
\* evaluator builds no other), so matrix[i][j] exists for every j below
\* matrix[0].size().
transpose(a) ==
    IF a.type # "MATRIX" THEN RuntimeError("Transpose operation requires a matrix")
    ELSE IF a.v = <<>> THEN Ok(MatrixValue(<<>>))
    ELSE Ok(MatrixValue([j \in 1 .. Len(a.v[1]) |->
                            [i \in 1 .. Len(a.v) |-> a.v[i][j]]]))

\* BuiltinFunctions::zeros
zeros(args) ==
    IF Len(args) # 2
    THEN RuntimeError("zeros() takes exactly two arguments (rows, cols)")
    ELSE IF args[1].type # "INTEGER" \/ args[2].type # "INTEGER"
    THEN RuntimeError("zeros() arguments must be integers")
    ELSE IF args[1].v < 0 \/ args[2].v < 0
    THEN RuntimeError("Matrix dimensions must be non-negative")
    ELSE Ok(MatrixValue([i \in 1 .. args[1].v |->
                            [j \in 1 .. args[2].v |-> Rat(0, 1)]]))

\* BuiltinFunctions::transpose
BuiltinTranspose(args) ==
    IF Len(args) # 1 THEN RuntimeError("transpose() takes exactly one argument")
    ELSE transpose(args[1])

\* BuiltinFunctions::ones
ones(args) ==
    IF Len(args) # 2
    THEN RuntimeError("ones() takes exactly two arguments (rows, cols)")
    ELSE IF args[1].type # "INTEGER" \/ args[2].type # "INTEGER"
    THEN RuntimeError("ones() arguments must be integers")
    ELSE IF args[1].v < 0 \/ args[2].v < 0
    THEN RuntimeError("Matrix dimensions must be non-negative")
    ELSE Ok(MatrixValue([i \in 1 .. args[1].v |->
                            [j \in 1 .. args[2].v |-> Rat(1, 1)]]))

\* BuiltinFunctions::eye
eye(args) ==
    IF Len(args) # 1 THEN RuntimeError("eye() takes exactly one argument (size)")
    ELSE IF args[1].type # "INTEGER"
    THEN RuntimeError("eye() argument must be an integer")
    ELSE IF args[1].v < 0 THEN RuntimeError("Matrix size must be non-negative")
    ELSE Ok(MatrixValue([i \in 1 .. args[1].v |->
                            [j \in 1 .. args[1].v |->
                                IF i = j THEN Rat(1, 1) ELSE Rat(0, 1)]]))

\* BuiltinFunctions::inverse
BuiltinInverse(args) ==
    IF Len(args) # 1 THEN RuntimeError("inverse() takes exactly one argument")
    ELSE inverse(args[1])

RECURSIVE RangeRows(_, _, _)
\* "for (i = start; i < end; i += step) result.push_back({i});" and, for a
\* negative step, "for (i = start; i > end; i += step)"
RangeRows(i, end, step) ==
    IF (step > 0 /\ i < end) \/ (step < 0 /\ i > end)
    THEN <<<<Rat(i, 1)>>>> \o RangeRows(i + step, end, step)
    ELSE <<>>

\* range(n)
RangeTo(args) ==
    IF args[1].type # "INTEGER" THEN RuntimeError("range() argument must be integer")
    ELSE IF args[1].v < 0 THEN RuntimeError("range() argument must be non-negative")
    ELSE Ok(MatrixValue(RangeRows(0, args[1].v, 1)))

\* range(start, end)
RangeBetween(args) ==
    IF args[1].type # "INTEGER" \/ args[2].type # "INTEGER"
    THEN RuntimeError("range() arguments must be integers")
    ELSE Ok(MatrixValue(RangeRows(args[1].v, args[2].v, 1)))

\* range(start, end, step)
RangeStep(args) ==
    IF args[1].type # "INTEGER" \/ args[2].type # "INTEGER" \/ args[3].type # "INTEGER"
    THEN RuntimeError("range() arguments must be integers")
    ELSE IF args[3].v = 0 THEN RuntimeError("range() step argument cannot be zero")
    ELSE Ok(MatrixValue(RangeRows(args[1].v, args[2].v, args[3].v)))

\* BuiltinFunctions::range
range(args) ==
    IF Len(args) = 1 THEN RangeTo(args)
    ELSE IF Len(args) = 2 THEN RangeBetween(args)
    ELSE IF Len(args) = 3 THEN RangeStep(args)
    ELSE RuntimeError("range() takes 1, 2, or 3 arguments")

\* "std::vector<std::vector<double>> single_row = {row};" of the for loop and
\* "result = {matrix[index]};" of the row access
SingleRow(row) == MatrixValue(<<row>>)

\* the checks and the result of Interpreter::evaluate_matrix_access
\* (interpreter.cpp:1070-1087) on the values of the object and of the index
RowAccess(matrix_value, index_value) ==
    IF matrix_value.type # "MATRIX" THEN RuntimeError("Cannot index non-matrix value")
    ELSE IF index_value.type # "INTEGER"
    THEN RuntimeError("Matrix index must be integer")
    ELSE IF index_value.v < 0 \/ index_value.v >= Len(matrix_value.v)
    THEN RuntimeError("Matrix index out of bounds")
    ELSE Ok(SingleRow(matrix_value.v[index_value.v + 1]))

\* a literal whose row r keeps only its first r elements
MatrixFrom_Triangular(elements, rows, cols) ==
    MatrixValue([r \in 1 .. rows |->
                    [k \in 1 .. (IF r < cols THEN r ELSE cols) |->
                        elements[(r - 1) * cols + k]]])

\* the matrix Interpreter::evaluate_matrix_literal builds of the values of
\* its elements (interpreter.cpp:1044-1063): row r holds the elements
\* r * cols .. r * cols + cols - 1
MatrixFrom(elements, rows, cols) ==
    MatrixValue([r \in 1 .. rows |->
                    [k \in 1 .. cols |-> elements[(r - 1) * cols + k]]])

(***************************************************************************)
(* The operations on Values as calls of their own: the operands are drawn  *)
(* from bounded sets, one operation is applied to them, and vcall holds    *)
(* the call and its result.                                                *)
(***************************************************************************)
MaxInt == 2

MaxDim == 2

\* the Integer values and the Float values k / 2 of the bounded range
IntegerOperands == {IntegerValue(k) : k \in -MaxInt .. MaxInt}

FloatOperands == {FloatValue(Rat(k, 2)) : k \in -2 * MaxInt .. 2 * MaxInt}

NumericOperands == IntegerOperands \cup FloatOperands

\* the matrix with the given numbers of rows and columns whose elements are
\* 1, 2, ... in row-major order
CountingMatrix(rows, cols) ==
    MatrixValue([i \in 1 .. rows |-> [j \in 1 .. cols |-> Rat((i - 1) * cols + j, 1)]])

\* matrices the evaluator produces: the results of zeros(r, c), and the
\* values of matrix literals
MatrixOperands ==
    {zeros(<<IntegerValue(r), IntegerValue(c)>>).value : r, c \in 0 .. MaxDim}
        \cup {CountingMatrix(r, c) : r, c \in 1 .. MaxDim}

\* the operands of test_basic_arithmetic (tests/test_interpreter.cpp:11-12)
TestOperands == {IntegerValue(10), IntegerValue(5)}

ValueOperands ==
    NumericOperands \cup TestOperands
        \cup {None, StringValue(<<"a">>), BooleanValue(TRUE), CountingMatrix(1, 1)}

\* the call op(args) and its result
ValueCall(op, args, result) == [op |-> op, args |-> args, result |-> result]

\* no call yet
ValueIdle == vcall = ValueCall("none", <<>>, Ok(None))

\* the binary operators of class Value
ValueOperator(op, a, b) ==
    CASE op = "+" -> OperatorAdd(a, b)
      [] op = "-" -> OperatorSub(a, b)
      [] op = "*" -> OperatorMul(a, b)
      [] op = "/" -> OperatorDiv(a, b)
      [] op = "==" -> OperatorEq(a, b)
      [] op = "!=" -> OperatorNe(a, b)
      [] op = "<" -> OperatorLt(a, b)
      [] op = "<=" -> OperatorLe(a, b)
      [] op = ">" -> OperatorGt(a, b)
      [] op = ">=" -> OperatorGe(a, b)

\* the matrix builtins that take numbers, and inverse
MatrixBuiltin(function_name, args) ==
    CASE function_name = "ones" -> ones(args)
      [] function_name = "eye" -> eye(args)
      [] function_name = "range" -> range(args)
      [] function_name = "inverse" -> BuiltinInverse(args)

\* the values 1, 2, ... of the elements of a literal
CountingElements(n) == [k \in 1 .. n |-> Rat(k, 1)]

\* the operands of the call to come: two values, one matrix, two matrices, a
\* matrix and a number, or one or three integers
ValueStart ==
    \/ \E a, b \in ValueOperands : vcall = ValueCall("none", <<a, b>>, Ok(None))
    \/ \E m \in MatrixOperands : vcall = ValueCall("none", <<m>>, Ok(None))
    \/ \E a, b \in MatrixOperands : vcall = ValueCall("none", <<a, b>>, Ok(None))
    \/ \E m \in MatrixOperands, n \in NumericOperands :
          \/ vcall = ValueCall("none", <<m, n>>, Ok(None))
          \/ vcall = ValueCall("none", <<n, m>>, Ok(None))
    \/ \E a \in IntegerOperands : vcall = ValueCall("none", <<a>>, Ok(None))
    \/ \E a, b, c \in IntegerOperands : vcall = ValueCall("none", <<a, b, c>>, Ok(None))

\* "a + b", "a - b", "a * b", "a / b"
ValueArithmetic ==
    /\ vcall.op = "none"
    /\ Len(vcall.args) = 2
    /\ \E op \in {"+", "-", "*", "/"} :
          vcall' = ValueCall(op, vcall.args,
                             ValueOperator(op, vcall.args[1], vcall.args[2]))
    /\ UNCHANGED <<lexvars, parsevars, env, interp, interp_pc>>

\* "a == b", "a != b", "a < b", "a <= b", "a > b", "a >= b"
ValueCompare ==
    /\ vcall.op = "none"
    /\ Len(vcall.args) = 2
    /\ \E op \in {"==", "!=", "<", "<=", ">", ">="} :
          vcall' = ValueCall(op, vcall.args,
                             ValueOperator(op, vcall.args[1], vcall.args[2]))
    /\ UNCHANGED <<lexvars, parsevars, env, interp, interp_pc>>

\* "zeros(a, b)"
ValueZeros ==
    /\ vcall.op = "none"
    /\ Len(vcall.args) = 2
    /\ vcall' = ValueCall("zeros", vcall.args, zeros(vcall.args))
    /\ UNCHANGED <<lexvars, parsevars, env, interp, interp_pc>>

\* "transpose(m)"
ValueTranspose ==
    /\ vcall.op = "none"
    /\ Len(vcall.args) = 1
    /\ vcall' = ValueCall("transpose", vcall.args, BuiltinTranspose(vcall.args))
    /\ UNCHANGED <<lexvars, parsevars, env, interp, interp_pc>>

\* "transpose(t)", t being what transpose(m) returned: vcall keeps m
ValueTransposeAgain ==
    /\ vcall.op = "transpose"
    /\ vcall.result.throws = "none"
    /\ vcall' = ValueCall("transpose transpose", vcall.args,
                          BuiltinTranspose(<<vcall.result.value>>))
    /\ UNCHANGED <<lexvars, parsevars, env, interp, interp_pc>>

\* "ones(a, b)", "eye(a)", "range(a)", "range(a, b)", "range(a, b, c)",
\* "inverse(m)"
ValueMatrixBuiltin ==
    /\ vcall.op = "none"
    /\ \E function_name \in {"ones", "eye", "range", "inverse"} :
          vcall' = ValueCall(function_name, vcall.args,
                             MatrixBuiltin(function_name, vcall.args))
    /\ UNCHANGED <<lexvars, parsevars, env, interp, interp_pc>>

\* "a mult b"
ValueMatrixMultiply ==
    /\ vcall.op = "none"
    /\ Len(vcall.args) = 2
    /\ vcall' = ValueCall("mult", vcall.args,
                          matrix_multiply(vcall.args[1], vcall.args[2]))
    /\ UNCHANGED <<lexvars, parsevars, env, interp, interp_pc>>

\* "-a"
ValueNegate ==
    /\ vcall.op = "none"
    /\ Len(vcall.args) = 1
    /\ vcall' = ValueCall("negate", vcall.args, negate(vcall.args[1]))
    /\ UNCHANGED <<lexvars, parsevars, env, interp, interp_pc>>

\* "m[i]"
ValueRowAccess ==
    /\ vcall.op = "none"
    /\ Len(vcall.args) = 2
    /\ vcall' = ValueCall("row", vcall.args, RowAccess(vcall.args[1], vcall.args[2]))
    /\ UNCHANGED <<lexvars, parsevars, env, interp, interp_pc>>

\* the value a for loop over the matrix m gives its variable in one of its
\* rounds
ValueForRow ==
    /\ vcall.op = "none"
    /\ Len(vcall.args) = 1
    /\ vcall.args[1].type = "MATRIX"
    /\ \E i \in DOMAIN vcall.args[1].v :
          vcall' = ValueCall("for row", vcall.args, Ok(SingleRow(vcall.args[1].v[i])))
    /\ UNCHANGED <<lexvars, parsevars, env, interp, interp_pc>>

\* the value of a literal of a rows and b columns whose a * b elements have
\* the values 1, 2, ...
ValueLiteral ==
    /\ vcall.op = "none"
    /\ Len(vcall.args) = 2
    /\ vcall.args[1].type = "INTEGER" /\ vcall.args[2].type = "INTEGER"
    /\ vcall.args[1].v >= 0 /\ vcall.args[2].v >= 0
    /\ vcall' = ValueCall("literal", vcall.args,
                          Ok(MatrixFrom(CountingElements(vcall.args[1].v * vcall.args[2].v),
                                        vcall.args[1].v, vcall.args[2].v)))
    /\ UNCHANGED <<lexvars, parsevars, env, interp, interp_pc>>

---------------------------------------------------------------------------
(***************************************************************************)
(* INTERPRETER (src/src/interpreter.cpp:820-1293)                          *)
(*                                                                         *)
(* The Interpreter is a record s: the heap of the Environment objects it   *)
(* made (frames), global_env_, current_env_, user_functions_, what it      *)
(* wrote to standard output (one entry for each call of print: the values  *)
(* printed) and the runtime errors it reported.  parser_ is a reference to *)
(* the Parser: the evaluator reads the arena and the strings of ctx.       *)
(*                                                                         *)
(* Every function of the evaluator is an operator from records to records; *)
(* s.value is what the call returned and s.exc how it ended:               *)
(*   "none"            it returned;                                        *)
(*   "RuntimeError"    a RuntimeError with the message s.what propagates;  *)
(*   "ReturnException" a ReturnException holding s.value propagates;       *)
(*   "indeterminate"   it used a union member that was never written;      *)
(*   "outside"         it needs a result the model does not compute, or    *)
(*                     more than MaxSteps loop rounds and calls.           *)
(* A function applied to a record whose exc is not "none" does nothing.    *)
(***************************************************************************)
MaxSteps == 6

BuiltinNames ==
    { <<"p", "r", "i", "n", "t">>,
      <<"i", "n", "p", "u", "t">>,
      <<"l", "e", "n">>,
      <<"a", "b", "s">>,
      <<"s", "q", "r", "t">>,
      <<"s", "i", "n">>,
      <<"c", "o", "s">>,
      <<"t", "a", "n">>,
      <<"p", "o", "w">>,
      <<"f", "l", "o", "o", "r">>,
      <<"c", "e", "i", "l">>,
      <<"r", "o", "u", "n", "d">>,
      <<"z", "e", "r", "o", "s">>,
      <<"o", "n", "e", "s">>,
      <<"e", "y", "e">>,
      <<"t", "r", "a", "n", "s", "p", "o", "s", "e">>,
      <<"d", "e", "t", "e", "r", "m", "i", "n", "a", "n", "t">>,
      <<"i", "n", "v", "e", "r", "s", "e">>,
      <<"r", "a", "n", "g", "e">> }

\* Interpreter::Interpreter.  calls is a history field: the calls of
\* interpret and interpret_expression made on the object, in their order.
NewInterpreter ==
    [frames |-> make_shared(<<>>, nullptr),
     global_env |-> 1,
     current_env |-> 1,
     user_functions |-> [n \in {} |-> None],
     output |-> <<>>,
     errors |-> <<>>,
     exc |-> "none",
     what |-> "",
     value |-> None,
     steps |-> 0,
     calls |-> <<>>]

\* "return value;"
Return(s, value) == IF s.exc # "none" THEN s ELSE [s EXCEPT !.value = value]

\* "throw RuntimeError(what);"
ThrowRuntimeError(s, what) ==
    IF s.exc # "none" THEN s ELSE [s EXCEPT !.exc = "RuntimeError", !.what = what]

\* a union member that was never written is used
Indeterminate(s) == IF s.exc # "none" THEN s ELSE [s EXCEPT !.exc = "indeterminate"]

\* the result r of an operation on values becomes the result of the call
Outcome(s, r) ==
    IF s.exc # "none" THEN s
    ELSE IF r.throws = "none" THEN Return(s, r.value)
    ELSE IF r.throws = "RuntimeError" THEN ThrowRuntimeError(s, r.what)
    ELSE [s EXCEPT !.exc = "outside"]

\* one more round of a loop or one more call of a function
Tick(s) ==
    IF s.exc # "none" THEN s
    ELSE IF s.steps >= MaxSteps THEN [s EXCEPT !.exc = "outside"]
    ELSE [s EXCEPT !.steps = @ + 1]

\* Interpreter::get_node_string
get_node_string(string_index) == get_string(ctx.strings, string_index)

RECURSIVE ChildIndices(_, _)
\* the loop of Interpreter::get_child_indices.  An arena of the model has
\* far fewer than 1000 nodes and no index is collected twice, so the limit of
\* line 1273 is never reached.
ChildIndices(current, indices) ==
    IF current = 0 \/ current >= Len(ctx.nodes) THEN indices
    ELSE IF \E k \in DOMAIN indices : indices[k] = current THEN indices
    ELSE ChildIndices(NodeAt(ctx, current).next_sibling_index,
                      Append(indices, current))

\* Interpreter::get_child_indices
get_child_indices(start_index) ==
    IF start_index = 0 THEN <<>> ELSE ChildIndices(start_index, <<>>)

RECURSIVE evaluate_node(_, _)
RECURSIVE execute_statement(_, _)
RECURSIVE EvaluateArguments(_, _, _, _)
RECURSIVE MatrixElements(_, _, _, _)
RECURSIVE ExecuteStatements(_, _, _)
RECURSIVE WhileLoop(_, _)
RECURSIVE ForRow(_, _, _, _, _)

\* the switch of Interpreter::evaluate_binary_op
ApplyBinary(op_type, left, right) ==
    CASE op_type = "ADD" -> OperatorAdd(left, right)
      [] op_type = "SUB" -> OperatorSub(left, right)
      [] op_type = "MUL" -> OperatorMul(left, right)
      [] op_type = "DIV" -> OperatorDiv(left, right)
      [] op_type = "POW" -> power(left, right)
      [] op_type = "MATMUL" -> matrix_multiply(left, right)
      [] op_type = "EQ" -> OperatorEq(left, right)
      [] op_type = "NE" -> OperatorNe(left, right)
      [] op_type = "LT" -> OperatorLt(left, right)
      [] op_type = "LE" -> OperatorLe(left, right)
      [] op_type = "GT" -> OperatorGt(left, right)
      [] op_type = "GE" -> OperatorGe(left, right)
      [] op_type = "AND" -> logical_and(left, right)
      [] op_type = "OR" -> logical_or(left, right)
      [] OTHER -> RuntimeError("Unknown binary operator")

\* interpreter.cpp:910-944, s being the record the evaluation of the right
\* operand returned
BinaryOperate(s, node, left) ==
    IF s.exc # "none" THEN s ELSE Outcome(s, ApplyBinary(node.op_type, left, s.value))

\* interpreter.cpp:909, s being the record the evaluation of the left operand
\* returned
BinaryRightOperand(s, node) ==
    BinaryOperate(evaluate_node(s, node.right_index), node, s.value)

\* Interpreter::evaluate_binary_op
evaluate_binary_op(s, node) == BinaryRightOperand(evaluate_node(s, node.left_index), node)

\* interpreter.cpp:950-957, s being the record the evaluation of the operand
\* returned
UnaryOperate(s, node) ==
    IF s.exc # "none" THEN s
    ELSE IF node.op_type = "NEGATE" THEN Outcome(s, negate(s.value))
    ELSE IF node.op_type = "NOT" THEN Outcome(s, logical_not(s.value))
    ELSE ThrowRuntimeError(s, "Unknown unary operator")

\* Interpreter::evaluate_unary_op
evaluate_unary_op(s, node) == UnaryOperate(evaluate_node(s, node.operand_index), node)

\* interpreter.cpp:962-970, s being the record the evaluation of the value
\* returned
AssignTarget(s, target) ==
    IF s.exc # "none" THEN s
    ELSE IF target.type # "IDENTIFIER"
    THEN ThrowRuntimeError(s, "Invalid assignment target")
    ELSE [s EXCEPT !.frames = assign(@, s.current_env,
                                     get_node_string(target.name_index), s.value)]

\* Interpreter::evaluate_assignment
evaluate_assignment(s, node) ==
    AssignTarget(evaluate_node(s, node.value_index), NodeAt(ctx, node.target_index))

\* Interpreter::evaluate_identifier
evaluate_identifier(s, node) ==
    IF get(s.frames, s.current_env, get_node_string(node.name_index)).found
    THEN Return(s, get(s.frames, s.current_env,
                       get_node_string(node.name_index)).value)
    ELSE ThrowRuntimeError(s, "Undefined variable")

\* "args.push_back(evaluate_node(arg_index));", s being the record the
\* evaluation returned
ArgumentNext(s, arg_indices, i, args) ==
    EvaluateArguments(s, arg_indices, i + 1, Append(args, s.value))

\* the loop of interpreter.cpp:985-987: the record and the arguments after it
EvaluateArguments(s, arg_indices, i, args) ==
    IF s.exc # "none" \/ i > Len(arg_indices) THEN [s |-> s, args |-> args]
    ELSE ArgumentNext(evaluate_node(s, arg_indices[i]), arg_indices, i, args)

\* a call of a function of BuiltinFunctions (interpreter.cpp:514-818).  print
\* writes its arguments as one line; a line of the output is kept as the
\* values printed.  zeros and transpose return their results; the results
\* of the other functions are not computed.
CallBuiltin(s, function_name, args) ==
    IF function_name = <<"p", "r", "i", "n", "t">>
    THEN [s EXCEPT !.output = Append(@, args), !.value = None]
    ELSE IF function_name = <<"z", "e", "r", "o", "s">> THEN Outcome(s, zeros(args))
    ELSE IF function_name = <<"t", "r", "a", "n", "s", "p", "o", "s", "e">>
    THEN Outcome(s, BuiltinTranspose(args))
    ELSE [s EXCEPT !.exc = "outside"]

RECURSIVE BindParameters(_, _, _, _, _)
\* "func_env->define(func.parameters[i], args[i]);" for every parameter
BindParameters(heap, func_env, parameters, args, i) ==
    IF i > Len(parameters) THEN heap
    ELSE BindParameters(define(heap, func_env, parameters[i], args[i]),
                        func_env, parameters, args, i + 1)

\* interpreter.cpp:1006-1016: the new Environment is the last of the heap
CallEnter(s, func, args) ==
    IF s.exc # "none" THEN s
    ELSE [s EXCEPT !.frames = BindParameters(make_shared(@, func.closure),
                                             Len(@) + 1, func.parameters, args, 1),
                   !.current_env = Len(s.frames) + 1]

\* interpreter.cpp:1018-1025, s being the record execute_statement returned:
\* the body ended, or a ReturnException is caught; any other exception leaves
\* the function with current_env_ as it is
CallLeave(s, previous_env) ==
    IF s.exc = "none" THEN [s EXCEPT !.current_env = previous_env, !.value = None]
    ELSE IF s.exc = "ReturnException"
    THEN [s EXCEPT !.current_env = previous_env, !.exc = "none"]
    ELSE s

\* interpreter.cpp:997-1026
CallUser(s, func, args) ==
    IF Len(args) # Len(func.parameters)
    THEN ThrowRuntimeError(s, "Function expects another number of arguments")
    ELSE CallLeave(execute_statement(CallEnter(Tick(s), func, args),
                                     func.body_node_index),
                   s.current_env)

\* interpreter.cpp:989-1028, a being the record and the arguments
CallFunction(a, function_name) ==
    IF a.s.exc # "none" THEN a.s
    ELSE IF function_name \in BuiltinNames
    THEN CallBuiltin(a.s, function_name, a.args)
    ELSE IF function_name \in DOMAIN a.s.user_functions
    THEN CallUser(a.s, a.s.user_functions[function_name], a.args)
    ELSE ThrowRuntimeError(a.s, "Undefined function")

\* Interpreter::evaluate_function_call
evaluate_function_call(s, node) ==
    CallFunction(EvaluateArguments(s, get_child_indices(node.args_start_index),
                                   1, <<>>),
                 get_node_string(node.name_index))

\* interpreter.cpp:1051-1056, s being the record the evaluation of the
\* element returned
MatrixElement(s, element_indices, i, elements) ==
    IF s.exc # "none" THEN [s |-> s, elements |-> elements]
    ELSE IF ~is_numeric(s.value)
    THEN [s |-> ThrowRuntimeError(s, "Matrix elements must be numeric"),
          elements |-> elements]
    ELSE MatrixElements(s, element_indices, i + 1,
                        Append(elements, to_double(s.value)))

\* the loops of interpreter.cpp:1044-1059: the elements in the order of their
\* evaluation
MatrixElements(s, element_indices, i, elements) ==
    IF s.exc # "none" \/ i > Len(element_indices)
    THEN [s |-> s, elements |-> elements]
    ELSE MatrixElement(evaluate_node(s, element_indices[i]), element_indices, i,
                       elements)

\* "return Value(matrix);": row r holds the elements r * cols .. r * cols +
\* cols - 1
MatrixOf(m, rows, cols) ==
    IF m.s.exc # "none" THEN m.s
    ELSE Return(m.s, MatrixFrom(m.elements, rows, cols))

\* Interpreter::evaluate_matrix_literal
evaluate_matrix_literal(s, node) ==
    IF node.elements_start_index = Uninit THEN Indeterminate(s)
    ELSE IF node.rows * node.cols # Len(get_child_indices(node.elements_start_index))
    THEN ThrowRuntimeError(s, "Matrix size mismatch")
    ELSE MatrixOf(MatrixElements(s, get_child_indices(node.elements_start_index),
                                 1, <<>>),
                  node.rows, node.cols)

\* interpreter.cpp:1068-1085, s being the record the evaluation of the index
\* returned
MatrixRow(s, matrix_value) ==
    IF s.exc # "none" THEN s ELSE Outcome(s, RowAccess(matrix_value, s.value))

\* interpreter.cpp:1066, s being the record the evaluation of the object
\* returned
MatrixIndex(s, node) == MatrixRow(evaluate_node(s, node.index_index), s.value)

\* Interpreter::evaluate_matrix_access
evaluate_matrix_access(s, node) ==
    MatrixIndex(evaluate_node(s, node.object_index), node)

\* interpreter.cpp:1090-1105, s being the record the evaluation of the object
\* returned
MemberOf(s, member_name) ==
    IF s.exc # "none" THEN s
    ELSE IF s.value.type # "MATRIX"
    THEN ThrowRuntimeError(s, "Member access only supported on matrices")
    ELSE IF member_name \in {<<"T">>, <<"d">>, <<"I">>} THEN [s EXCEPT !.exc = "outside"]
    ELSE ThrowRuntimeError(s, "Unknown matrix member")

\* Interpreter::evaluate_member_access
evaluate_member_access(s, node) ==
    MemberOf(evaluate_node(s, node.object_index),
             get_node_string(node.member_name_index))

\* the switch of Interpreter::evaluate_node
EvaluateSwitch(s, node) ==
    CASE node.type = "INTEGER_LITERAL" -> Return(s, IntegerValue(node.value))
      [] node.type = "FLOAT_LITERAL" -> Return(s, FloatValue(node.value))
      [] node.type = "STRING_LITERAL" ->
            Return(s, StringValue(get_node_string(node.string_index)))
      [] node.type = "BOOLEAN_LITERAL" -> Return(s, BooleanValue(node.value))
      [] node.type = "IDENTIFIER" -> evaluate_identifier(s, node)
      [] node.type = "BINARY_OP" -> evaluate_binary_op(s, node)
      [] node.type = "UNARY_OP" -> evaluate_unary_op(s, node)
      [] node.type = "ASSIGNMENT" -> evaluate_assignment(s, node)
      [] node.type = "FUNCTION_CALL" -> evaluate_function_call(s, node)
      [] node.type = "MATRIX_LITERAL" -> evaluate_matrix_literal(s, node)
      [] node.type = "MATRIX_ACCESS" -> evaluate_matrix_access(s, node)
      [] node.type = "MEMBER_ACCESS" -> evaluate_member_access(s, node)
      [] OTHER -> ThrowRuntimeError(s, "Cannot evaluate node type")

\* Interpreter::evaluate_node
evaluate_node(s, node_index) ==
    IF s.exc # "none" THEN s
    ELSE IF node_index = Uninit THEN Indeterminate(s)
    ELSE IF node_index = 0 \/ node_index >= Len(ctx.nodes)
    THEN ThrowRuntimeError(s, "Invalid node index")
    ELSE EvaluateSwitch(s, NodeAt(ctx, node_index))

\* interpreter.cpp:1156-1160, s being the record the evaluation of the
\* condition returned
IfBranch(s, node) ==
    IF s.exc # "none" THEN s
    ELSE IF is_truthy(s.value) THEN execute_statement(s, node.then_block_index)
    ELSE IF node.else_block_index # 0
    THEN execute_statement(s, node.else_block_index)
    ELSE s

\* Interpreter::execute_if_statement
execute_if_statement(s, node) == IfBranch(evaluate_node(s, node.condition_index), node)

\* interpreter.cpp:1166-1169, s being the record the evaluation of the
\* condition returned
WhileTest(s, node) ==
    IF s.exc # "none" \/ ~is_truthy(s.value) THEN s
    ELSE WhileLoop(execute_statement(s, node.body_index), node)

\* one round of the loop of Interpreter::execute_while_statement
WhileLoop(s, node) ==
    IF s.exc # "none" THEN s
    ELSE WhileTest(evaluate_node(Tick(s), node.condition_index), node)

\* Interpreter::execute_while_statement
execute_while_statement(s, node) == WhileLoop(s, node)

\* "current_env_->assign(var_name, Value(single_row));"
ForAssign(s, var_name, row) ==
    IF s.exc # "none" THEN s
    ELSE [s EXCEPT !.frames = assign(@, s.current_env, var_name, SingleRow(row))]

\* the loop over the rows (interpreter.cpp:1192-1197)
ForRow(s, matrix, i, var_name, node) ==
    IF s.exc # "none" \/ i > Len(matrix) THEN s
    ELSE ForRow(execute_statement(ForAssign(Tick(s), var_name, matrix[i]),
                                  node.body_index),
                matrix, i + 1, var_name, node)

\* interpreter.cpp:1188-1200
ForRows(s, iterable, var_name, node) ==
    IF iterable.type = "MATRIX" THEN ForRow(s, iterable.v, 1, var_name, node)
    ELSE ThrowRuntimeError(s, "For loop iterable must be a matrix or range")

\* "auto loop_env = std::make_shared<Environment>(current_env_);
\*  current_env_ = loop_env;"
ForEnter(s) ==
    [s EXCEPT !.frames = make_shared(@, s.current_env),
              !.current_env = Len(s.frames) + 1]

\* "current_env_ = previous_env;" at the end of the try block and in the
\* handler of every exception, which throws it again
ForLeave(s, previous_env) == [s EXCEPT !.current_env = previous_env]

\* interpreter.cpp:1182-1206, s being the record the evaluation of the
\* iterable returned
ForIterate(s, var_name, node) ==
    IF s.exc # "none" THEN s
    ELSE ForLeave(ForRows(ForEnter(s), s.value, var_name, node), s.current_env)

\* Interpreter::execute_for_statement
execute_for_statement(s, node) ==
    IF NodeAt(ctx, node.variable_index).type # "IDENTIFIER"
    THEN ThrowRuntimeError(s, "For loop variable must be an identifier")
    ELSE ForIterate(evaluate_node(s, node.iterable_index),
                    get_node_string(NodeAt(ctx, node.variable_index).name_index),
                    node)

RECURSIVE ParameterNames(_, _, _)
\* the loop of interpreter.cpp:1216-1222: the names of the parameters, or
\* throws when a node of the chain is no identifier
ParameterNames(param_indices, i, parameters) ==
    IF i > Len(param_indices) THEN [throws |-> FALSE, parameters |-> parameters]
    ELSE IF NodeAt(ctx, param_indices[i]).type # "IDENTIFIER"
    THEN [throws |-> TRUE, parameters |-> parameters]
    ELSE ParameterNames(param_indices, i + 1,
                        Append(parameters,
                               get_node_string(NodeAt(ctx, param_indices[i]).name_index)))

\* Function::Function
Function(name, parameters, body, closure) ==
    [name |-> name, parameters |-> parameters, body_node_index |-> body,
     closure |-> closure]

\* Interpreter::execute_function_def
execute_function_def(s, node) ==
    IF ParameterNames(get_child_indices(node.params_start_index), 1, <<>>).throws
    THEN ThrowRuntimeError(s, "Function parameter must be an identifier")
    ELSE [s EXCEPT !.user_functions =
             (get_node_string(node.name_index) :>
                  Function(get_node_string(node.name_index),
                           ParameterNames(get_child_indices(node.params_start_index),
                                          1, <<>>).parameters,
                           node.body_index, s.current_env)) @@ @]

\* "throw ReturnException(return_value);"
ThrowReturn(s) == IF s.exc # "none" THEN s ELSE [s EXCEPT !.exc = "ReturnException"]

\* Interpreter::execute_return_statement
execute_return_statement(s, node) ==
    IF node.value_index # 0 THEN ThrowReturn(evaluate_node(s, node.value_index))
    ELSE ThrowReturn(Return(s, None))

\* "for (uint32_t stmt_index : statement_indices) execute_statement(stmt_index);"
ExecuteStatements(s, statement_indices, i) ==
    IF s.exc # "none" \/ i > Len(statement_indices) THEN s
    ELSE ExecuteStatements(execute_statement(s, statement_indices[i]),
                           statement_indices, i + 1)

\* Interpreter::execute_block
execute_block(s, node_index) ==
    ExecuteStatements(s, get_child_indices(NodeAt(ctx, node_index).first_child_index),
                      1)

\* the switch of Interpreter::execute_statement
ExecuteSwitch(s, node, node_index) ==
    CASE node.type = "EXPRESSION_STATEMENT" ->
            IF node.first_child_index # INVALID_INDEX
               /\ node.first_child_index < Len(ctx.nodes)
            THEN evaluate_node(s, node.first_child_index)
            ELSE s
      [] node.type = "ASSIGNMENT" -> evaluate_assignment(s, node)
      [] node.type = "IF_STATEMENT" -> execute_if_statement(s, node)
      [] node.type = "WHILE_STATEMENT" -> execute_while_statement(s, node)
      [] node.type = "FOR_STATEMENT" -> execute_for_statement(s, node)
      [] node.type = "FUNCTION_DEF" -> execute_function_def(s, node)
      [] node.type = "RETURN_STATEMENT" -> execute_return_statement(s, node)
      [] node.type \in {"BLOCK", "PROGRAM"} -> execute_block(s, node_index)
      [] OTHER -> evaluate_node(s, node_index)

\* Interpreter::execute_statement
execute_statement(s, node_index) ==
    IF s.exc # "none" THEN s
    ELSE IF node_index = Uninit THEN Indeterminate(s)
    ELSE IF node_index >= Len(ctx.nodes) THEN s
    ELSE ExecuteSwitch(s, NodeAt(ctx, node_index), node_index)

\* Interpreter::print_runtime_error: the message goes to the standard error
print_runtime_error(s) ==
    [s EXCEPT !.errors = Append(@, s.what), !.exc = "none", !.what = "",
              !.value = None]

\* the handlers of Interpreter::interpret (interpreter.cpp:855-859), s being
\* the record execute_statement returned
InterpretCatch(s) ==
    IF s.exc = "RuntimeError" THEN print_runtime_error(s)
    ELSE IF s.exc = "ReturnException" THEN [s EXCEPT !.exc = "none", !.value = None]
    ELSE [s EXCEPT !.value = None]

\* Interpreter::interpret
interpret(s) == InterpretCatch(execute_statement(s, 0))

\* the handler of Interpreter::interpret_expression (interpreter.cpp:865-868),
\* s being the record evaluate_node returned
InterpretExpressionCatch(s) ==
    IF s.exc = "RuntimeError" THEN print_runtime_error(s) ELSE s

\* Interpreter::interpret_expression: s.value is the Value it returns
interpret_expression(s, node_index) ==
    InterpretExpressionCatch(evaluate_node(s, node_index))

RECURSIVE ReparentStatements(_, _, _, _)
\* the two loops of Parser::create_program_block (parser.cpp:874-884): every
\* node from i on whose parent is the root gets block_node as its parent;
\* the list of these nodes
ReparentStatements(c, block_node, i, top_level_statements) ==
    IF i >= Len(c.nodes) THEN [ctx |-> c, list |-> top_level_statements]
    ELSE IF NodeAt(c, i).parent_index = ROOT_NODE_INDEX
    THEN ReparentStatements(SetField(c, i, "parent_index", block_node),
                            block_node, i + 1, Append(top_level_statements, i))
    ELSE ReparentStatements(c, block_node, i + 1, top_level_statements)

\* parser.cpp:887-898, r being the arena and the list after the loops
ProgramBlockFinish(r, block_node) ==
    SetFields(SetField(LinkSiblings(SetFields(r.ctx, block_node,
                                              BlockFields(r.list)),
                                    r.list, 1),
                       ROOT_NODE_INDEX, "first_child_index", block_node),
              block_node, [parent_index |-> ROOT_NODE_INDEX])

\* Parser::create_program_block.  The new BLOCK node has the root as its
\* parent from its construction on, so it is the last of the top-level
\* statements the loop finds.
create_program_block(c) ==
    ProgramBlockFinish(ReparentStatements(create_node(c, "BLOCK"), Len(c.nodes),
                                          1, <<>>),
                       Len(c.nodes))

(***************************************************************************)
(* The drivers of src/tests run a source text through the three            *)
(* components: "Parser parser(tokens); parser.parse(); Interpreter          *)
(* interpreter(parser); interpreter.interpret();".  RunStart is the state  *)
(* after the Parser was constructed on a token vector; the calls on the    *)
(* Interpreter are made when parse() has returned.                         *)
(***************************************************************************)
MaxCalls == 2

MaxNodes == 6

\* "Dakota::Interpreter interpreter(parser);"
InterpreterNew ==
    /\ parse_pc = "returned"
    /\ ctx.status = "ok"
    /\ interp_pc = "idle"
    /\ interp' = NewInterpreter
    /\ interp_pc' = "ready"
    /\ UNCHANGED <<lexvars, parsevars, env, vcall>>

\* where the Interpreter is after a call that left it as s
AfterCall(s) ==
    CASE s.exc = "indeterminate" -> "undefined"
      [] s.exc = "outside" -> "outside"
      [] s.exc = "ReturnException" -> "crashed"
      [] OTHER -> "ready"

\* "interpreter.interpret();"
Interpret ==
    /\ interp_pc = "ready"
    /\ Len(interp.calls) < MaxCalls
    /\ interp' = [interpret(interp) EXCEPT !.calls = Append(@, "interpret"),
                                            !.steps = 0]
    /\ interp_pc' = AfterCall(interp')
    /\ UNCHANGED <<lexvars, parsevars, env, vcall>>

\* "interpreter.interpret_expression(node_index);".  An exception that is no
\* RuntimeError leaves the call: nothing catches it.
InterpretExpression ==
    /\ interp_pc = "ready"
    /\ Len(interp.calls) < MaxCalls
    /\ \E node_index \in 0 .. Len(ctx.nodes) :
          interp' = [interpret_expression(interp, node_index) EXCEPT
                        !.calls = Append(@, "interpret_expression"),
                        !.steps = 0]
    /\ interp_pc' = AfterCall(interp')
    /\ UNCHANGED <<lexvars, parsevars, env, vcall>>

\* After the use of an indeterminate value the call may do anything: not
\* return, end the process, or return.
InterpretUndefined ==
    /\ interp_pc = "undefined"
    /\ \E outcome \in {"hang", "crashed", "ready"} :
          /\ interp_pc' = outcome
          /\ interp' = [interp EXCEPT !.exc = IF outcome = "ready" THEN "none" ELSE @]
    /\ UNCHANGED <<lexvars, parsevars, env, vcall>>

\* "parser.create_program_block();" after parse() returned
CreateProgramBlock ==
    /\ parse_pc = "returned"
    /\ ctx.status = "ok"
    /\ Len(ctx.nodes) < MaxNodes
    /\ ctx' = create_program_block(ctx)
    /\ UNCHANGED <<lexvars, parse_pc, runvars>>

\* the first line of the code of test_print_function (tests/test_interpreter.cpp:157):
\*     print("Hello Dakota")
PrintProgram ==
    <<"p", "r", "i", "n", "t", "(", "\"", "H", "e", "l", "l", "o", " ", "D",
      "a", "k", "o", "t", "a", "\"", ")">>

\* an if statement with both arms:
\*     if 1 > 0:
\*         print("then")
\*     else:
\*         print("else")
IfElseProgram ==
    <<"i", "f", " ", "1", " ", ">", " ", "0", ":", "\n", " ", " ", " ", " ",
      "p", "r", "i", "n", "t", "(", "\"", "t", "h", "e", "n", "\"", ")",
      "\n", "e", "l", "s", "e", ":", "\n", " ", " ", " ", " ", "p", "r",
      "i", "n", "t", "(", "\"", "e", "l", "s", "e", "\"", ")", "\n">>

\* a function whose body goes on after a return, and a call of it:
\*     function f():
\*         return 7
\*         y = 8
\*     x = f()
ReturnProgram ==
    <<"f", "u", "n", "c", "t", "i", "o", "n", " ", "f", "(", ")", ":", "\n",
      " ", " ", " ", " ", "r", "e", "t", "u", "r", "n", " ", "7", "\n", " ",
      " ", " ", " ", "y", " ", "=", " ", "8", "\n", "x", " ", "=", " ", "f",
      "(", ")">>

\* a function whose body raises a runtime error, and a call of it:
\*     function f():
\*         return 1 / 0
\*     f()
FailingCallProgram ==
    <<"f", "u", "n", "c", "t", "i", "o", "n", " ", "f", "(", ")", ":", "\n",
      " ", " ", " ", " ", "r", "e", "t", "u", "r", "n", " ", "1", " ", "/",
      " ", "0", "\n", "f", "(", ")">>

\* a statement that raises a runtime error between two assignments:
\*     x = 1
\*     y = 1 / 0
\*     z = 3
FailingProgram ==
    <<"x", " ", "=", " ", "1", "\n", "y", " ", "=", " ", "1", " ", "/", " ",
      "0", "\n", "z", " ", "=", " ", "3">>

\* a for loop over the rows of a matrix:
\*     for x in [1, 2]:
\*         print(x)
ForProgram ==
    <<"f", "o", "r", " ", "x", " ", "i", "n", " ", "[", "1", ",", " ", "2",
      "]", ":", "\n", " ", " ", " ", " ", "p", "r", "i", "n", "t", "(", "x",
      ")", "\n">>

\* a matrix and the print of one of its rows:
\*     m = [1, 2; 3, 4]
\*     print(m[1])
AccessProgram ==
    <<"m", " ", "=", " ", "[", "1", ",", " ", "2", ";", " ", "3", ",", " ",
      "4", "]", "\n", "p", "r", "i", "n", "t", "(", "m", "[", "1", "]",
      ")">>

\* a matrix literal with two rows of two elements as a statement:
\*     [1, 2; 3, 4]
MatrixProgram ==
    <<"[", "1", ",", " ", "2", ";", " ", "3", ",", " ", "4", "]">>

\* the sources the runs start from: the programs above, and for statements
\* without body, whose iterable is an expression of each kind
\* a loop whose body makes its condition false (src/unnamed/part_001:120-127
\* without the print):
\*     i = 0
\*     while i < 5:
\*         i = i + 1
WhileProgram ==
    <<"i", " ", "=", " ", "0", "\n", "w", "h", "i", "l", "e", " ", "i", " ",
      "<", " ", "5", ":", "\n", " ", " ", " ", " ", "i", " ", "=", " ", "i",
      " ", "+", " ", "1", "\n">>

RunPrograms ==
    { PrintProgram, IfElseProgram, ReturnProgram, WhileProgram,
      FailingCallProgram, FailingProgram, ForProgram,
      MatrixProgram,
      AccessProgram,
      \* for x in []
      <<"f", "o", "r", " ", "x", " ", "i", "n", " ", "[", "]">>,
      \* for x in print("Hello Dakota")
      <<"f", "o", "r", " ", "x", " ", "i", "n", " ", "p", "r", "i", "n",
        "t", "(", "\"", "H", "e", "l", "l", "o", " ", "D", "a", "k", "o",
        "t", "a", "\"", ")">>,
      \* for x in 1 + 1
      <<"f", "o", "r", " ", "x", " ", "i", "n", " ", "1", " ", "+", " ",
        "1">>,
      \* for x in -1
      <<"f", "o", "r", " ", "x", " ", "i", "n", " ", "-", "1">>,
      \* for x in 1 < 2.5
      <<"f", "o", "r", " ", "x", " ", "i", "n", " ", "1", " ", "<", " ",
        "2", ".", "5">>,
      \* for x in [1, 2; 3, 4]
      <<"f", "o", "r", " ", "x", " ", "i", "n", " ", "[", "1", ",", " ",
        "2", ";", " ", "3", ",", " ", "4", "]">>,
      \* for x in not "a"
      <<"f", "o", "r", " ", "x", " ", "i", "n", " ", "n", "o", "t", " ",
        "\"", "a", "\"">>,
      \* for x in x = 1
      <<"f", "o", "r", " ", "x", " ", "i", "n", " ", "x", " ", "=", " ",
        "1">>,
      \* for x in f(1, true)
      <<"f", "o", "r", " ", "x", " ", "i", "n", " ", "f", "(", "1", ",",
        " ", "t", "r", "u", "e", ")">>,
      \* for x in 1 / 0
      <<"f", "o", "r", " ", "x", " ", "i", "n", " ", "1", " ", "/", " ",
        "0">>,
      \* for x in 2 * 3 - 1 == 5 and true or false
      <<"f", "o", "r", " ", "x", " ", "i", "n", " ", "2", " ", "*", " ",
        "3", " ", "-", " ", "1", " ", "=", "=", " ", "5", " ", "a", "n",
        "d", " ", "t", "r", "u", "e", " ", "o", "r", " ", "f", "a", "l",
        "s", "e">> }

\* the token vectors the runs start from
RunTokenVectors == TokenVectors \cup {tokenize(src).tokens : src \in RunPrograms}

\* "Dakota::Parser parser(tokens);"
RunStart ==
    /\ \E toks \in RunTokenVectors : ctx = NewParser(toks)
    /\ parse_pc = "loop"

---------------------------------------------------------------------------
LexerInit == LexerStart /\ ParserIdle /\ EnvIdle /\ InterpreterIdle /\ ValueIdle

LexerNext ==
    \/ TokenizeIndent
    \/ TokenizeToken
    \/ TokenizeLoopExit
    \/ TokenizeFinish

SpecLexer == LexerInit /\ [][LexerNext]_vars

ParserInit == ParserStart /\ LexerIdle /\ EnvIdle /\ InterpreterIdle /\ ValueIdle

ParserNext ==
    \/ ParseProgramIteration
    \/ ParseReturn
    \/ ParseUndefined

SpecParser == ParserInit /\ [][ParserNext]_vars

EnvInit == EnvIdle /\ LexerIdle /\ ParserIdle /\ InterpreterIdle /\ ValueIdle

EnvNext ==
    \/ EnvNew
    \/ EnvDefine
    \/ EnvGet
    \/ EnvAssign

SpecEnv == EnvInit /\ [][EnvNext]_vars

RunInit == RunStart /\ LexerIdle /\ EnvIdle /\ InterpreterIdle /\ ValueIdle

RunNext ==
    \/ ParseProgramIteration
    \/ ParseReturn
    \/ ParseUndefined
    \/ CreateProgramBlock
    \/ InterpreterNew
    \/ Interpret
    \/ InterpretExpression
    \/ InterpretUndefined

SpecRun == RunInit /\ [][RunNext]_vars

ValueInit == ValueStart /\ LexerIdle /\ ParserIdle /\ EnvIdle /\ InterpreterIdle

ValueNext ==
    \/ ValueArithmetic
    \/ ValueCompare
    \/ ValueZeros
    \/ ValueTranspose
    \/ ValueTransposeAgain
    \/ ValueMatrixBuiltin
    \/ ValueMatrixMultiply
    \/ ValueNegate
    \/ ValueRowAccess
    \/ ValueForRow
    \/ ValueLiteral

SpecValue == ValueInit /\ [][ValueNext]_vars




\* C2: whenever tokenize() has returned (it did not throw), the token vector
\* holds as many INDENT tokens as DEDENT tokens, the DEDENTs appended at the
\* end of input included.
C2_IndentDedentBalanced ==
    lex_pc = "returned" => CountOf(tokens, "INDENT") = CountOf(tokens, "DEDENT")

\* a returned tokenization that opened at least two blocks
C2_Witness ==
    /\ lex_pc = "returned"
    /\ CountOf(tokens, "INDENT") >= 2

\* C1: Parser::parse() terminates on every finite token vector: no loop of
\* it (the statement loop, synchronize, the block loop, the binary-expression
\* loop, the sibling walk of add_child) runs forever.
C1_ParseTerminates == parse_pc # "hang" \/ ctx.status # "hang"

\* C3: when parse() has returned and a statement raised a parse error on the
\* way (Parser::error was called), has_error() is true.
C3_ErrorFlagSurvives ==
    parse_pc = "returned" /\ ctx.status = "ok" /\ ctx.error_calls > 0
        => ctx.has_error


RECURSIVE NearestBinding(_, _, _)
\* the nearest frame on the parent chain of f, f included, that binds name;
\* nullptr when none does
NearestBinding(heap, f, name) ==
    IF name \in DOMAIN heap[f].variables THEN f
    ELSE IF heap[f].parent = nullptr THEN nullptr
    ELSE NearestBinding(heap, heap[f].parent, name)

\* C7: Environment::assign(name, v) called on a frame F changes exactly one
\* frame, giving name the value v there, and leaves every other frame as it
\* was: the frame changed is the nearest frame on F's parent chain, F
\* included, that binds name, or F itself when no frame of the chain does.
C7_AssignChangesNearestOrOwnFrame ==
    [][env'.call.op = "assign" =>
          \A k \in 1 .. Len(env.frames) :
              env'.frames[k] =
                  IF k = (IF NearestBinding(env.frames, env'.call.frame,
                                            env'.call.name) # nullptr
                          THEN NearestBinding(env.frames, env'.call.frame,
                                              env'.call.name)
                          ELSE env'.call.frame)
                  THEN [env.frames[k] EXCEPT
                           !.variables = (env'.call.name :> env'.call.value) @@ @]
                  ELSE env.frames[k]]_vars


\* the token vectors of the programs
PrintTokens == tokenize(PrintProgram).tokens

IfElseTokens == tokenize(IfElseProgram).tokens

ReturnTokens == tokenize(ReturnProgram).tokens

FailingCallTokens == tokenize(FailingCallProgram).tokens

FailingTokens == tokenize(FailingProgram).tokens

ForTokens == tokenize(ForProgram).tokens

\* parse() can no longer return: it is in a loop that never ends, or the
\* process has ended
ParserStuck == parse_pc \in {"hang", "crashed"}

\* the driver's one call of interpret() has returned
Interpreted == interp_pc = "ready" /\ interp.calls = <<"interpret">>

\* the variables of the global environment
Globals == interp.frames[interp.global_env].variables

\* C4: executing an if/else statement runs the statements of exactly one
\* arm.  For IfElseProgram, whose condition is truthy: the run gets as far as
\* interpret(), and when interpret() has returned the then-arm has printed
\* its line and nothing else was printed, neither by the else-arm nor by a
\* second execution of an arm's statement at top level.
C4_IfElseRunsOneArm ==
    ctx.tokens = IfElseTokens =>
        /\ ~ParserStuck
        /\ Interpreted => interp.output = <<<<StringValue(<<"t", "h", "e", "n">>)>>>>

\* C5: a call of a user function whose body executes "return e" yields the
\* value of e and executes no statement of the body after the return.  For
\* ReturnProgram: the run gets as far as interpret(), and when interpret()
\* has returned, x is bound to the 7 that f returned and the assignment to y
\* after the return has bound nothing.
C5_ReturnYieldsValueAndEndsBody ==
    ctx.tokens = ReturnTokens =>
        /\ ~ParserStuck
        /\ Interpreted =>
              /\ DOMAIN Globals = {<<"x">>}
              /\ Globals[<<"x">>] = IntegerValue(7)

\* C6: a top-level call statement performs its effect exactly once, in
\* statement order, without a runtime error.  For PrintProgram: the run gets
\* as far as interpret(), and when interpret() has returned the output is
\* the one line Hello Dakota and no runtime error was reported.
C6_CallStatementsRunOnceInOrder ==
    ctx.tokens = PrintTokens =>
        /\ ~ParserStuck
        /\ Interpreted =>
              /\ interp.output = <<<<StringValue(<<"H", "e", "l", "l", "o", " ", "D", "a", "k", "o", "t", "a">>)>>>>
              /\ interp.errors = <<>>

\* C8: when a call of a user function ends, by a runtime error in its body
\* too, current_env_ is the environment that was current before the call.
\* For FailingCallProgram: the run gets as far as interpret(), and when
\* interpret() has returned, the division by zero in f was reported and
\* current_env_ is the global environment again, in which f was called.
C8_CallRestoresEnvironment ==
    ctx.tokens = FailingCallTokens =>
        /\ ~ParserStuck
        /\ Interpreted =>
              /\ interp.errors = <<"Division by zero">>
              /\ interp.current_env = interp.global_env

\* C9: when a statement raises a runtime error during interpret(), no later
\* statement runs, interpret() returns normally and the bindings made before
\* the error stay in the global environment.  For FailingProgram: the run
\* gets as far as interpret(), and when interpret() has returned, the error
\* was reported, x is bound to 1 and neither y nor z is bound.
C9_ErrorEndsProgramKeepsBindings ==
    ctx.tokens = FailingTokens =>
        /\ ~ParserStuck
        /\ Interpreted =>
              /\ interp.errors = <<"Division by zero">>
              /\ DOMAIN Globals = {<<"x">>}
              /\ Globals[<<"x">>] = IntegerValue(1)

\* C10: a for loop binds its variable only in a fresh scope; after the loop
\* current_env_ is the environment in effect before it, and the frames of
\* that environment bind the variable's name as before.  For ForProgram: the
\* run gets as far as interpret(), and when interpret() has returned the body
\* has printed the row [1, 2], current_env_ is the global environment and
\* the global environment does not bind x.
C10_ForBindsOnlyInLoopScope ==
    ctx.tokens = ForTokens =>
        /\ ~ParserStuck
        /\ Interpreted =>
              /\ interp.output = <<<<MatrixValue(<<<<Rat(1, 1), Rat(2, 1)>>>>)>>>>
              /\ interp.current_env = interp.global_env
              /\ <<"x">> \notin DOMAIN Globals

AccessTokens == tokenize(AccessProgram).tokens

\* C11: evaluating the parsed expression M[i], M being a matrix with N
\* columns and 0 <= i < rows(M), yields the 1-by-N matrix holding row i of
\* M.  For AccessProgram: the run gets as far as interpret(), and when
\* interpret() has returned, print(m[1]) has printed the row [3, 4] of m and
\* no runtime error was reported.
C11_AccessYieldsRow ==
    ctx.tokens = AccessTokens =>
        /\ ~ParserStuck
        /\ Interpreted =>
              /\ interp.output = <<<<MatrixValue(<<<<Rat(3, 1), Rat(4, 1)>>>>)>>>>
              /\ interp.errors = <<>>

\* C12: handle 0 of the StringTable denotes the empty string at all times:
\* when parse() has returned, whatever names and string literals it added to
\* the table, get_string(0) is the empty string, the string add_string("")
\* returned handle 0 for.
C12_HandleZeroIsEmptyString ==
    parse_pc = "returned" /\ ctx.status = "ok" =>
        get_string(ctx.strings, add_string(ctx.strings, <<>>).index) = <<>>

\* the comparison op of two doubles
PromotedCompare(op, x, y) ==
    CASE op = "==" -> x = y
      [] op = "!=" -> x # y
      [] op = "<" -> DoubleLess(x, y)
      [] op = "<=" -> DoubleLess(x, y) \/ x = y
      [] op = ">" -> DoubleLess(y, x)
      [] op = ">=" -> DoubleLess(y, x) \/ x = y

\* C13: for two numeric operands, in any mix of Integer and Float, each
\* comparison operator returns the result of comparing their float
\* promotions.
C13_NumericComparePromoted ==
    /\ vcall.op \in {"==", "!=", "<", "<=", ">", ">="}
    /\ is_numeric(vcall.args[1])
    /\ is_numeric(vcall.args[2])
    => vcall.result = Ok(BooleanValue(PromotedCompare(vcall.op,
                                                      to_double(vcall.args[1]),
                                                      to_double(vcall.args[2]))))

\* C14: for every matrix M the evaluator can produce, matrices with zero
\* rows or zero columns included, transpose(transpose(M)) equals M.
C14_TransposeTwiceIsIdentity ==
    vcall.op = "transpose transpose" => vcall.result = Ok(vcall.args[1])

MatrixTokens == tokenize(MatrixProgram).tokens

\* following next_sibling from the literal's elements_start visits exactly
\* rows * cols nodes, which are the integer literals of the given values
MatrixChained(node, values) ==
    /\ node.elements_start_index # Uninit
    /\ Len(get_child_indices(node.elements_start_index)) = node.rows * node.cols
    /\ Len(get_child_indices(node.elements_start_index)) = Len(values)
    /\ \A k \in DOMAIN values :
          /\ NodeAt(ctx, get_child_indices(node.elements_start_index)[k]).type
                 = "INTEGER_LITERAL"
          /\ NodeAt(ctx, get_child_indices(node.elements_start_index)[k]).value
                 = values[k]

\* C15: for every MATRIX_LITERAL node of a parse that reports no error,
\* following next_sibling from elements_start visits exactly rows * cols
\* nodes, the literal's elements in row-major source order.  For
\* MatrixProgram: when parse() has returned and has_error() is false, the
\* chain of every MATRIX_LITERAL node is the four elements 1, 2, 3, 4.
C15_MatrixElementsChained ==
    ctx.tokens = MatrixTokens /\ parse_pc = "returned" /\ ~ctx.has_error =>
        \A n \in 0 .. Len(ctx.nodes) - 1 :
            NodeAt(ctx, n).type = "MATRIX_LITERAL" =>
                MatrixChained(NodeAt(ctx, n), <<1, 2, 3, 4>>)

BinaryTokenTypes ==
    {"OR", "AND", "EQUAL", "NOT_EQUAL", "LESS", "LESS_EQUAL", "GREATER",
     "GREATER_EQUAL", "PLUS", "MINUS", "MULTIPLY", "DIVIDE", "MATMUL", "POWER"}

UnaryTokenTypes == {"MINUS", "NOT"}

\* the tokens are "for x in" followed by an expression that ends the input
IsForIn(toks) ==
    /\ Len(toks) >= 4
    /\ toks[1].type = "FOR" /\ toks[2].type = "IDENTIFIER" /\ toks[3].type = "IN"

\* the tokens of the expression
IterableTokens(toks) == SubSeq(toks, 4, Len(toks))

IsOperand(tok, text) == tok.type = "INTEGER" /\ tok.value = <<text>>

\* a op1 b op2 c with the operands 1, 2, 3
IsBinaryPair(e) ==
    /\ Len(e) = 5
    /\ IsOperand(e[1], "1") /\ IsOperand(e[3], "2") /\ IsOperand(e[5], "3")
    /\ e[2].type \in BinaryTokenTypes /\ e[4].type \in BinaryTokenTypes

\* u a op b with the operands 1, 2
IsUnaryFirst(e) ==
    /\ Len(e) = 4
    /\ e[1].type \in UnaryTokenTypes
    /\ IsOperand(e[2], "1") /\ IsOperand(e[4], "2")
    /\ e[3].type \in BinaryTokenTypes

\* a op1 u b op2 c with the operands 1, 2, 3
IsUnaryInner(e) ==
    /\ Len(e) = 6
    /\ IsOperand(e[1], "1") /\ IsOperand(e[4], "2") /\ IsOperand(e[6], "3")
    /\ e[2].type \in BinaryTokenTypes /\ e[5].type \in BinaryTokenTypes
    /\ e[3].type \in UnaryTokenTypes

Literal(v) == <<"INTEGER_LITERAL", <<v>>>>

RECURSIVE ExprTree(_, _)
\* the expression rooted at node i of the arena, as nested tuples
ExprTree(nodes, i) ==
    IF i < 0 \/ i >= Len(nodes) THEN <<"?">>
    ELSE IF nodes[i + 1].type = "INTEGER_LITERAL" THEN Literal(nodes[i + 1].value)
    ELSE IF nodes[i + 1].type = "BINARY_OP"
    THEN <<nodes[i + 1].op_type, ExprTree(nodes, nodes[i + 1].left_index),
           ExprTree(nodes, nodes[i + 1].right_index)>>
    ELSE IF nodes[i + 1].type = "UNARY_OP"
    THEN <<nodes[i + 1].op_type, ExprTree(nodes, nodes[i + 1].operand_index)>>
    ELSE <<nodes[i + 1].type>>

\* the precedence the table gives the operator of a token
TablePrecedence(token_type) ==
    OPERATOR_TABLE[TableRow(token_to_binary_op(token_type))].precedence

\* op1 takes its operands before op2 does
GroupsLeft(op1, op2) ==
    \/ TablePrecedence(op1) > TablePrecedence(op2)
    \/ TablePrecedence(op1) = TablePrecedence(op2) /\ op1 # "POWER"

\* (a op1 b) op2 c or a op1 (b op2 c)
Grouped(op1, op2, a, b, c) ==
    IF GroupsLeft(op1, op2)
    THEN <<token_to_binary_op(op2), <<token_to_binary_op(op1), a, b>>, c>>
    ELSE <<token_to_binary_op(op1), a, <<token_to_binary_op(op2), b, c>>>>

\* the tree of the last expression parsed: its root is the last node created
ParsedTree == ExprTree(ctx.nodes, Len(ctx.nodes) - 1)

BinaryPairGrouped(e) ==
    IsBinaryPair(e) =>
        ParsedTree = Grouped(e[2].type, e[4].type, Literal(1), Literal(2), Literal(3))

UnaryFirstGrouped(e) ==
    IsUnaryFirst(e) =>
        ParsedTree = <<token_to_binary_op(e[3].type),
                       <<token_to_unary_op(e[1].type), Literal(1)>>, Literal(2)>>

UnaryInnerGrouped(e) ==
    IsUnaryInner(e) =>
        ParsedTree = Grouped(e[2].type, e[5].type, Literal(1),
                             <<token_to_unary_op(e[3].type), Literal(2)>>,
                             Literal(3))

\* C16: for the operands 1, 2, 3 and binary operators op1, op2 of the
\* precedence table, parsing "1 op1 2 op2 3" builds (1 op1 2) op2 3 when op1
\* has higher precedence than op2, or equal precedence and the operators are
\* not **, and 1 op1 (2 op2 3) otherwise; a unary - or not applies only to
\* the operand that immediately follows it: "u 1 op 2" is (u 1) op 2 and
\* "1 op1 u 2 op2 3" groups as "1 op1 2 op2 3" does with (u 2) for 2.
C16_PrecedenceAndAssociativity ==
    parse_pc = "returned" /\ IsForIn(ctx.tokens) =>
        /\ BinaryPairGrouped(IterableTokens(ctx.tokens))
        /\ UnaryFirstGrouped(IterableTokens(ctx.tokens))
        /\ UnaryInnerGrouped(IterableTokens(ctx.tokens))

\* "1 ** -2 ** 3" has been parsed as 1 ** ((-2) ** 3)
C16_Witness ==
    /\ parse_pc = "returned" /\ IsForIn(ctx.tokens)
    /\ IsUnaryInner(IterableTokens(ctx.tokens))
    /\ ctx.tokens[5].type = "POWER" /\ ctx.tokens[8].type = "POWER"
    /\ ctx.tokens[6].type = "MINUS"
    /\ ParsedTree = <<"POW", Literal(1),
                      <<"POW", <<"NEGATE", Literal(2)>>, Literal(3)>>>>

ErrorRecoveryTokens == tokenize(ErrorRecoveryProgram).tokens

\* the children of the root PROGRAM node, as print_ast walks them
RootStatements == get_child_indices(NodeAt(ctx, 0).first_child_index)

\* node n is an assignment to the variable of the given name
IsAssignmentTo(n, name) ==
    /\ NodeAt(ctx, n).type = "ASSIGNMENT"
    /\ NodeAt(ctx, n).target_index < Len(ctx.nodes)
    /\ NodeAt(ctx, NodeAt(ctx, n).target_index).type = "IDENTIFIER"
    /\ get_string(ctx.strings,
                  NodeAt(ctx, NodeAt(ctx, n).target_index).name_index) = name

\* C17: after a statement that fails to parse, the parser resumes at the next
\* statement boundary and every well-formed statement on a later line is
\* attached to the root in source order.  For ErrorRecoveryProgram: parse()
\* returns, and when it has, the root has the assignments to x and to y as
\* two separate children, in this order.
C17_ResumesAfterFailedStatement ==
    ctx.tokens = ErrorRecoveryTokens =>
        /\ ~ParserStuck
        /\ parse_pc = "returned" =>
              /\ Len(RootStatements) = 2
              /\ IsAssignmentTo(RootStatements[1], <<"x">>)
              /\ IsAssignmentTo(RootStatements[2], <<"y">>)

\* the 1-based positions at which the lines of a source text start
LineStarts(src) == {1} \cup {p + 1 : p \in {q \in DOMAIN src : src[q] = "\n"}}

RECURSIVE LeadingEnd(_, _)
\* the position after the leading whitespace of the line that starts at p
LeadingEnd(src, p) ==
    IF p <= Len(src) /\ src[p] \in {" ", "\t"} THEN LeadingEnd(src, p + 1) ELSE p

\* the leading whitespace of the line that starts at p
LeadingWhitespace(src, p) == SubSeq(src, p, LeadingEnd(src, p) - 1)

LeadingSpaces(src, p) ==
    Cardinality({k \in DOMAIN LeadingWhitespace(src, p) :
                    LeadingWhitespace(src, p)[k] = " "})

LeadingTabs(src, p) ==
    Cardinality({k \in DOMAIN LeadingWhitespace(src, p) :
                    LeadingWhitespace(src, p)[k] = "\t"})

\* the starts of the indented lines before the line that starts at p
IndentedBefore(src, p) ==
    {q \in LineStarts(src) : q < p /\ LeadingWhitespace(src, q) # <<>>}

\* the first indented line before the line at p is the one at q
FirstIndentedBefore(src, p, q) ==
    q \in IndentedBefore(src, p) /\ \A r \in IndentedBefore(src, p) : q <= r

\* the style an earlier indented line fixed for the line that starts at p
FixedStyle(src, p) ==
    IF \E q \in LineStarts(src) :
          FirstIndentedBefore(src, p, q) /\ LeadingTabs(src, q) = 0
    THEN "SPACES"
    ELSE IF \E q \in LineStarts(src) :
               FirstIndentedBefore(src, p, q) /\ LeadingSpaces(src, q) = 0
    THEN "TABS"
    ELSE "UNKNOWN"

\* some line mixes a space and a tab in its leading whitespace, or uses tabs
\* after the style was fixed to spaces, or spaces after it was fixed to tabs
MixesIndentation(src) ==
    \E p \in LineStarts(src) :
        \/ LeadingSpaces(src, p) > 0 /\ LeadingTabs(src, p) > 0
        \/ LeadingTabs(src, p) > 0 /\ FixedStyle(src, p) = "SPACES"
        \/ LeadingSpaces(src, p) > 0 /\ FixedStyle(src, p) = "TABS"

\* tokenize() is on its way to a throw or has thrown: it has not left its
\* loop, and every iteration of the loop consumes input
ThrowsOrRunning ==
    \/ lex_pc = "threw"
    \/ lex_pc = "loop" /\ lexer.current_char # NUL

\* C18: Lexer::tokenize() throws, returning no token vector, whenever a line's
\* leading whitespace contains both a space and a tab, or uses tabs after the
\* style was fixed to spaces by an earlier indented line, or uses spaces after
\* the style was fixed to tabs: on such a source tokenize() never reaches the
\* end of its loop nor its return.
C18_MixedIndentationThrows ==
    MixesIndentation(lexer.source) => ThrowsOrRunning

\* "if x: / (4 spaces)c=1 / (tab)e": tabs after spaces, thrown
C18_Witness ==
    /\ lex_pc = "threw"
    /\ lexer.indent_style = "SPACES"
    /\ lexer.source = <<"i", "f", " ", "x", ":", " ", "\n",
                        " ", " ", " ", " ", "c", "=", "1", "\n", "\t", "e">>

\* the start of the first line with non-zero space indentation is p
FirstSpaceIndented(src, p) ==
    /\ p \in LineStarts(src) /\ LeadingSpaces(src, p) > 0
    /\ \A q \in LineStarts(src) : LeadingSpaces(src, q) > 0 => p <= q

\* a line after the first space-indented line has a positive count of leading
\* spaces that is not a multiple of the count of that first line
OffBaseWidth(src) ==
    \E p, q \in LineStarts(src) :
        /\ FirstSpaceIndented(src, p) /\ p < q
        /\ LeadingSpaces(src, q) > 0
        /\ LeadingSpaces(src, q) % LeadingSpaces(src, p) # 0

\* C19: once the space base width b has been fixed by the first line with
\* non-zero space indentation, Lexer::tokenize() throws on any later line
\* whose count of leading spaces is positive and not a multiple of b: on such
\* a source tokenize() never reaches the end of its loop nor its return.
C19_OffBaseWidthThrows ==
    OffBaseWidth(lexer.source) => ThrowsOrRunning

\* "if x: / (4 spaces)c=1 / (6 spaces)h": 6 spaces after a base of 4, thrown
C19_Witness ==
    /\ lex_pc = "threw"
    /\ lexer.base_indent = 4
    /\ lexer.source = <<"i", "f", " ", "x", ":", " ", "\n",
                        " ", " ", " ", " ", "c", "=", "1", "\n",
                        " ", " ", " ", " ", " ", " ", "h">>

\* the type the claim gives the result of +, - and *
ArithmeticType(a, b) ==
    IF a.type = "INTEGER" /\ b.type = "INTEGER" THEN "INTEGER" ELSE "FLOAT"

\* the numeric value b equals zero
IsZero(b) == is_numeric(b) /\ to_double(b).num = 0

\* the call returned a value of the given type
Returned(result, type) == result.throws = "none" /\ result.value.type = type

\* the call returned the Float q with q * b = a
ReturnedQuotient(result, a, b) ==
    /\ Returned(result, "FLOAT")
    /\ DoubleProduct(result.value.v, to_double(b)) = to_double(a)

ArithmeticResult(op, a, b, result) ==
    /\ op # "/" /\ is_numeric(a) /\ is_numeric(b) =>
          Returned(result, ArithmeticType(a, b))
    /\ op = "/" /\ is_numeric(a) /\ is_numeric(b) /\ ~IsZero(b) =>
          ReturnedQuotient(result, a, b)
    /\ op = "/" /\ (is_numeric(a) \/ a.type = "MATRIX") /\ IsZero(b) =>
          result = RuntimeError("Division by zero")

\* C20: for numeric operands, +, - and * return an Integer when both operands
\* are Integers and a Float otherwise; / returns a Float, the quotient, for
\* every pair of numeric operands with a non-zero divisor, and raises
\* "Division by zero" whenever the divisor equals zero, whether the dividend
\* is a number or a matrix.
C20_ArithmeticResultTypes ==
    vcall.op \in {"+", "-", "*", "/"} =>
        ArithmeticResult(vcall.op, vcall.args[1], vcall.args[2], vcall.result)

\* 10 / 5 has returned Float 2.0
C20_Witness ==
    /\ vcall.op = "/"
    /\ vcall.args = <<IntegerValue(10), IntegerValue(5)>>
    /\ vcall.result = Ok(FloatValue(Rat(2, 1)))

RECURSIVE ReadsThrough(_, _, _, _)
\* the frame inner is f or lies below f in the chain, and neither inner nor a frame
\* between inner and f binds name: a get(name) on inner comes to f
ReadsThrough(heap, inner, f, name) ==
    \/ inner = f
    \/ /\ name \notin DOMAIN heap[inner].variables
       /\ heap[inner].parent # nullptr
       /\ ReadsThrough(heap, heap[inner].parent, f, name)

\* the step is a call that assigns or defines name
Rebinds(call, name) == call.op \in {"assign", "define"} /\ call.name = name

\* the call just made is an assign(x, v) on a frame F, and get(x) returns v
\* on every frame that reads x through F
AssignedIsRead ==
    env'.call.op = "assign" =>
        \A inner \in 1 .. Len(env'.frames) :
            ReadsThrough(env'.frames, inner, env'.call.frame, env'.call.name) =>
                get(env'.frames, inner, env'.call.name)
                    = [found |-> TRUE, value |-> env'.call.value]

\* the call just made changes what get returns on no frame, for every name it
\* does not assign or define
OthersKeepReading ==
    \A name \in EnvNames :
        ~Rebinds(env'.call, name) =>
            \A inner \in 1 .. Len(env.frames) :
                get(env'.frames, inner, name) = get(env.frames, inner, name)

\* C21: after Environment::assign(x, v) on a frame F, get(x) on F, and on any
\* frame below F in the chain that does not bind x itself or through a nearer
\* frame, returns v until x is assigned or defined again: right after the
\* call every such get returns v, and no call other than an assign or define
\* of x (a get, a new frame, an assign or define of another name) changes
\* what get(x) returns on any frame.
C21_GetReturnsAssigned == [][AssignedIsRead /\ OthersKeepReading]_vars

\* assign(x, 2) was called on frame 2, which has frame 1 above it and frame 3
\* below it; frame 2 bound x and frame 3 does not, and get(x) on frame 3 is 2
C21_Witness ==
    /\ env.call = EnvCall("assign", 2, <<"x">>, IntegerValue(2), FALSE)
    /\ Len(env.frames) = 3
    /\ env.frames[2].parent = 1 /\ env.frames[3].parent = 2
    /\ <<"x">> \in DOMAIN env.frames[1].variables
    /\ <<"x">> \in DOMAIN env.frames[2].variables
    /\ <<"x">> \notin DOMAIN env.frames[3].variables
    /\ env.frames[1].variables[<<"x">>] = IntegerValue(1)
    /\ get(env.frames, 3, <<"x">>) = [found |-> TRUE, value |-> IntegerValue(2)]

\* the rows of a matrix all have the length of the first
Rectangular(matrix) == \A i \in DOMAIN matrix : Len(matrix[i]) = Len(matrix[1])

\* C22: every Matrix value the evaluator produces (from matrix literals,
\* zeros/ones/eye/range, transpose, inverse, element-wise + and -, scaling by
\* * and /, negation, matrix_multiply, row access and for-loop rows) has all
\* of its rows of the same length: whatever operation was called on operands
\* that are numbers or matrices of this kind, a matrix it returned is of this
\* kind.
C22_MatricesRectangular ==
    vcall.result.throws = "none" /\ vcall.result.value.type = "MATRIX" =>
        Rectangular(vcall.result.value.v)

\* the inverse of [1, 2; 3, 4] has been returned, two rows of two elements
C22_Witness ==
    /\ vcall.op = "inverse"
    /\ vcall.args = <<CountingMatrix(2, 2)>>
    /\ vcall.result = Ok(MatrixValue(<< <<Rat(-2, 1), Rat(1, 1)>>,
                                        <<Rat(3, 2), Rat(-1, 2)>> >>))

\* the entries of the stack grow from bottom to top
StrictlyIncreasing(stack) == \A i \in 1 .. Len(stack) - 1 : stack[i] < stack[i + 1]

\* C23: in every reachable lexer state the indentation stack is non-empty,
\* has 0 as its bottom entry and is strictly increasing from bottom to top;
\* when tokenize() returns without throwing, the stack is exactly the single
\* entry 0.
C23_IndentStackShape ==
    /\ lexer.indent_stack # <<>>
    /\ lexer.indent_stack[1] = 0
    /\ StrictlyIncreasing(lexer.indent_stack)
    /\ lex_pc = "returned" /\ ~lexer.threw => lexer.indent_stack = <<0>>

\* tokenize() has returned from a source that ended two blocks deep: the
\* closing loop popped two levels and left the single entry 0
C23_Witness ==
    /\ lex_pc = "returned"
    /\ ~lexer.threw
    /\ Len(tokens) >= 4
    /\ tokens[Len(tokens)].type = "DEDENT"
    /\ tokens[Len(tokens) - 1].type = "DEDENT"
    /\ Cardinality({i \in DOMAIN tokens : tokens[i].type = "INDENT"}) = 2
    /\ lexer.indent_stack = <<0>>

WhileTokens == tokenize(WhileProgram).tokens

\* C24: executing "while c: body" evaluates c before every iteration,
\* executes the body once for each truthy evaluation and stops at the first
\* falsy one, so a loop whose body makes its condition false terminates.  For
\* WhileProgram: the run gets as far as interpret(), and when interpret() has
\* returned, i is bound to 5.
C24_WhileRunsUntilFalsy ==
    ctx.tokens = WhileTokens =>
        /\ ~ParserStuck
        /\ Interpreted =>
              /\ <<"i">> \in DOMAIN Globals
              /\ Globals[<<"i">>] = IntegerValue(5)

\* the nodes the first_child and next_sibling links of the nodes in seen lead
\* to, with the nodes in seen
LinkStep(nodes, seen) ==
    seen \cup { k \in 0 .. Len(nodes) - 1 :
                  \E n \in seen : \/ nodes[n + 1].first_child_index = k
                                  \/ nodes[n + 1].next_sibling_index = k }

RECURSIVE LinkClosure(_, _)
\* the nodes that can be reached from the nodes in seen by first_child and
\* next_sibling links
LinkClosure(nodes, seen) ==
    IF LinkStep(nodes, seen) = seen THEN seen
    ELSE LinkClosure(nodes, LinkStep(nodes, seen))

\* C25: after parse() returns, every node index k > 0 in the arena is
\* reachable from node 0 by following first_child and next_sibling links
\* only.
C25_AllNodesLinked ==
    parse_pc = "returned" =>
        \A k \in 1 .. Len(ctx.nodes) - 1 : k \in LinkClosure(ctx.nodes, {0})

BlockTokens == tokenize(BlockProgram).tokens

RECURSIVE SiblingChain(_, _, _)
\* the first count nodes of the next_sibling chain that starts at node start
SiblingChain(nodes, start, count) ==
    IF count = 0 \/ start < 0 \/ start >= Len(nodes) THEN <<>>
    ELSE <<start>> \o SiblingChain(nodes, nodes[start + 1].next_sibling_index, count - 1)

\* the statements the BLOCK node b lists
BlockStatements(b) ==
    IF NodeAt(ctx, b).statement_count = 0 THEN <<>>
    ELSE SiblingChain(ctx.nodes, NodeAt(ctx, b).statements_start_index,
                      NodeAt(ctx, b).statement_count)

\* the BLOCK node b lists two statements, the assignments to x and to y in
\* this order, and the chain ends after them
ListsBothAssignments(b) ==
    /\ NodeAt(ctx, b).type = "BLOCK"
    /\ NodeAt(ctx, b).statement_count = 2
    /\ Len(BlockStatements(b)) = 2
    /\ IsAssignmentTo(BlockStatements(b)[1], <<"x">>)
    /\ IsAssignmentTo(BlockStatements(b)[2], <<"y">>)
    /\ NodeAt(ctx, BlockStatements(b)[2]).next_sibling_index = INVALID_INDEX

\* C26: after a compound statement is parsed, its BLOCK node's
\* statement_count equals the number of statements written in the block
\* body, and the chain from statements_start lists exactly those statement
\* nodes in source order, with no expression, identifier or literal sub-node
\* in it.  For BlockProgram: parse() returns, and when it has, the arena
\* holds a BLOCK node that lists the two assignments and nothing else.
C26_BlockListsItsStatements ==
    ctx.tokens = BlockTokens =>
        /\ ~ParserStuck
        /\ parse_pc = "returned" =>
              \E b \in 1 .. Len(ctx.nodes) - 1 : ListsBothAssignments(b)

\* C27: after any parse, the next_sibling links of the arena are acyclic:
\* starting at any node and following next_sibling until the sentinel
\* INVALID_INDEX never visits a node twice.
C27_SiblingLinksAcyclic ==
    parse_pc = "returned" =>
        \A k \in 0 .. Len(ctx.nodes) - 1 : LastSibling(ctx.nodes, k, {k}) # -1

ConsecutiveTokens == tokenize(ConsecutiveAssignments).tokens

\* no token of the input is a binary operator of the precedence table
NoOperatorToken == \A i \in DOMAIN ctx.tokens : ctx.tokens[i].type \notin BinaryTokenTypes

\* the parser has built the node of a binary operation
BinaryOpBuilt == \E k \in DOMAIN ctx.nodes : ctx.nodes[k].type = "BINARY_OP"

\* C28: parse_binary_expression treats only the binary-operator tokens of the
\* precedence table as operators: when the token after an operand is of any
\* other kind the expression ends there and the token is left unconsumed.
\* So an input without any operator token never gets a BINARY_OP node, and
\* of two assignments on consecutive lines each keeps its literal as its
\* value.
C28_OnlyTableOperators ==
    /\ NoOperatorToken => ~BinaryOpBuilt
    /\ ctx.tokens = ConsecutiveTokens => ~ParserStuck /\ parse_pc # "undefined"

\* C29: in the token vector returned by tokenize(), an EOF token, if
\* present, is the last token: every DEDENT emitted at the end of the input
\* comes before it.
C29_EofIsLast ==
    lex_pc = "returned" /\ ~lexer.threw =>
        \A i \in DOMAIN tokens : tokens[i].type = "EOF_TOKEN" => i = Len(tokens)

\* the line the lexer L stands at the start of holds no code: after its
\* leading whitespace comes the end of the line, the end of the input or a
\* comment
HoldsNoCode(L) ==
    CharAt(L.source, LeadingEnd(L.source, L.position + 1) - 1) \in {"\n", NUL, "\\"}

\* tokenize() is about to call handle_indentation for a line without code
AtLineWithoutCode ==
    /\ lex_pc = "loop"
    /\ at_line_start
    /\ lexer.current_char # NUL
    /\ ~lexer.preserve_comments
    /\ HoldsNoCode(lexer)

\* C30: with comment preservation off, a line that holds no code (only
\* whitespace, or only a comment, whatever its leading whitespace) emits no
\* INDENT or DEDENT token and leaves the indentation stack unchanged.
C30_LineWithoutCodeKeepsIndentation ==
    [][AtLineWithoutCode =>
          tokens' = tokens /\ lexer'.indent_stack = lexer.indent_stack]_vars

=============================================================================
